---- MODULE Spec2Model ----
(***************************************************************************)
(* Verification model of filesystem-mcp-server: the path validators of     *)
(* internal/security, the allowed-directory registry and the mutating tool *)
(* handlers (write_file, edit_file, create_directory, delete_directory).   *)
(*                                                                         *)
(* A Go string is a sequence of one-character strings, so that prefix      *)
(* tests, filepath.Clean, Dir, Join and Rel are computed on characters.    *)
(* The filesystem is a function from the clean absolute path of every      *)
(* existing entry to its node; "/" is always a directory.                  *)
(*                                                                         *)
(* A value a Go function binds once and reads several times is an operator *)
(* parameter here: the operator that continues with it is defined in a LET *)
(* and applied to the call that produces the value.                        *)
(***************************************************************************)
EXTENDS Integers, Sequences, FiniteSets, TLC

VARIABLES
    fs,      \* the filesystem: path of each existing entry -> node
    dirs,    \* Registry.dirs: the normalized allowed directories
    last,    \* the request served, the filesystem it found and its result
    cPath,   \* containment check: the path argument
    cRoots,  \* containment check: the allowedDirs argument
    cRes,    \* containment check: the result ("unset" before the call)
    proc     \* a request served step by step: its goroutines and what they
             \* share (<<>> where a request is served in one step)

vars == <<fs, dirs, last, cPath, cRoots, cRes, proc>>

(***************************************************************************)
(* Strings and path/filepath                                               *)
(***************************************************************************)
Sep == "/"
Root == <<Sep>>
Dot == <<".">>
DotDot == <<".", ".">>
NUL == "0"

\* strings.HasPrefix
HasPrefix(s, prefix) ==
    /\ Len(prefix) <= Len(s)
    /\ \A i \in 1..Len(prefix) : s[i] = prefix[i]

\* strings.ContainsRune
ContainsRune(s, r) == \E i \in 1..Len(s) : s[i] = r

\* strings.Split(s, c) for a one-character separator c: the pieces between
\* separators, empty pieces kept
RECURSIVE SplitFrom(_, _, _, _)
SplitFrom(s, c, i, cur) ==
    IF i > Len(s) THEN <<cur>>
    ELSE IF s[i] = c THEN <<cur>> \o SplitFrom(s, c, i + 1, <<>>)
    ELSE SplitFrom(s, c, i + 1, Append(cur, s[i]))

SplitOn(s, c) == SplitFrom(s, c, 1, <<>>)
Split(s) == SplitOn(s, Sep)

\* strings.Join(parts, c)
RECURSIVE JoinWith(_, _)
JoinWith(parts, c) ==
    IF parts = <<>> THEN <<>>
    ELSE IF Len(parts) = 1 THEN parts[1]
    ELSE parts[1] \o <<c>> \o JoinWith(Tail(parts), c)

JoinParts(parts) == JoinWith(parts, Sep)

\* The element loop of filepath.Clean: empty and "." elements are dropped, ".."
\* removes the element before it, is dropped at the root of a rooted path and
\* is kept at the start of a relative one.
RECURSIVE CleanParts(_, _, _)
CleanParts(parts, out, rooted) ==
    IF parts = <<>> THEN out
    ELSE IF Head(parts) = <<>> \/ Head(parts) = Dot
    THEN CleanParts(Tail(parts), out, rooted)
    ELSE IF Head(parts) = DotDot THEN
        IF out # <<>> /\ out[Len(out)] # DotDot
        THEN CleanParts(Tail(parts), SubSeq(out, 1, Len(out) - 1), rooted)
        ELSE IF rooted THEN CleanParts(Tail(parts), out, rooted)
        ELSE CleanParts(Tail(parts), Append(out, DotDot), rooted)
    ELSE CleanParts(Tail(parts), Append(out, Head(parts)), rooted)

\* filepath.Clean
Clean(s) ==
    IF s = <<>> THEN Dot
    ELSE
        LET Built(rooted, out) ==
                IF rooted THEN Root \o JoinParts(out)
                ELSE IF out = <<>> THEN Dot
                ELSE JoinParts(out)
        IN  Built(s[1] = Sep, CleanParts(Split(s), <<>>, s[1] = Sep))

\* index of the last separator of s, 0 when there is none
RECURSIVE LastSepFrom(_, _)
LastSepFrom(s, i) == IF i = 0 \/ s[i] = Sep THEN i ELSE LastSepFrom(s, i - 1)

LastSep(s) == LastSepFrom(s, Len(s))

\* filepath.Dir: everything up to the last separator, cleaned
Dir(s) == Clean(SubSeq(s, 1, LastSep(s)))

\* filepath.Base of a clean path: the last element
Base(s) ==
    IF s = <<>> THEN Dot
    ELSE IF s = Root THEN Root
    ELSE SubSeq(s, LastSep(s) + 1, Len(s))

\* filepath.Join of two non-empty elements
Join(a, b) == Clean(a \o <<Sep>> \o b)

\* filepath.Rel(base, targ) where base is targ or a lexical ancestor of targ,
\* which is the only way the validators and safeMkdirAll call it
Rel(base, targ) ==
    LET Below(b, t) ==
            IF b = t THEN Dot
            ELSE IF b = Root THEN SubSeq(t, 2, Len(t))
            ELSE SubSeq(t, Len(b) + 2, Len(t))
    IN  Below(Clean(base), Clean(targ))

\* filepath.IsAbs
IsAbs(s) == s # <<>> /\ s[1] = Sep


(***************************************************************************)
(* The filesystem as the os package sees it                                *)
(***************************************************************************)
DirNode == [kind |-> "dir", data |-> <<>>, perm |-> {}, target |-> <<>>]
FileNode(d, m) == [kind |-> "file", data |-> d, perm |-> m, target |-> <<>>]
LinkNode(t) == [kind |-> "link", data |-> <<>>, perm |-> {}, target |-> t]

\* number of symbolic links one resolution follows before it gives up
LinkLimit == 255

Ok(p) == [err |-> "", path |-> p]
Err(e) == [err |-> e, path |-> <<>>]

\* a FileInfo (or the error) of os.Lstat and os.Stat
Info(kind, at) == [err |-> "", kind |-> kind, at |-> at]
NoInfo(e) == [err |-> e, kind |-> "none", at |-> <<>>]

\* os.IsNotExist
IsNotExist(e) == e = "ENOENT"

KindAt(f, p) ==
    IF p = Root THEN "dir"
    ELSE IF p \in DOMAIN f THEN f[p].kind
    ELSE "none"

\* the entry called name in directory dir
Child(dir, name) == IF dir = Root THEN Root \o name ELSE dir \o <<Sep>> \o name

\* the elements of a clean absolute path
Elems(p) == SelectSeq(Split(p), LAMBDA c : c # <<>>)

\* Path resolution, one element at a time: cur is the directory reached so
\* far (no symlink in it), rem the elements still to look up. A symlink is
\* replaced by its (absolute) target and resolution restarts at the root.
RECURSIVE Walk(_, _, _, _)
Walk(f, cur, rem, fuel) ==
    IF rem = <<>> THEN Ok(cur)
    ELSE IF KindAt(f, cur) # "dir" THEN Err("ENOTDIR")
    ELSE
        LET Step(next) ==
                IF next \notin DOMAIN f THEN Err("ENOENT")
                ELSE IF f[next].kind = "link" THEN
                    IF fuel = 0 THEN Err("ELOOP")
                    ELSE Walk(f, Root, Elems(f[next].target) \o Tail(rem), fuel - 1)
                ELSE Walk(f, next, Tail(rem), fuel)
        IN  Step(Child(cur, Head(rem)))

\* filepath.EvalSymlinks: every symlink of the path followed, the last included
EvalSymlinks(f, p) == Walk(f, Root, Elems(p), LinkLimit)

\* Lstat as it would be with os.Stat called in its place: the last element is
\* followed as well
LstatFollowing(f, p) ==
    LET Found(w) ==
            IF w.err # "" THEN NoInfo(w.err) ELSE Info(KindAt(f, w.path), w.path)
    IN  Found(Walk(f, Root, Elems(p), LinkLimit))

\* os.Lstat: the parent chain is followed, the last element is not
Lstat(f, p) ==
    IF p = Root THEN Info("dir", Root)
    ELSE
        LET Entry(e) ==
                IF e \notin DOMAIN f THEN NoInfo("ENOENT") ELSE Info(f[e].kind, e)
            InParent(w) ==
                IF w.err # "" THEN NoInfo(w.err)
                ELSE IF KindAt(f, w.path) # "dir" THEN NoInfo("ENOTDIR")
                ELSE Entry(Child(w.path, Base(p)))
        IN  InParent(Walk(f, Root, Elems(Dir(p)), LinkLimit))

\* os.Stat: every symlink followed
Stat(f, p) ==
    LET Found(w) ==
            IF w.err # "" THEN NoInfo(w.err) ELSE Info(KindAt(f, w.path), w.path)
    IN  Found(EvalSymlinks(f, p))

(***************************************************************************)
(* internal/pathutil                                                       *)
(***************************************************************************)
\* the process working directory, used by filepath.Abs for relative paths
Cwd == <<Sep, "b">>

\* pathutil.NormalizePath on a Unix host, for paths that do not start with "~"
NormalizePath(path) ==
    IF IsAbs(path) THEN Clean(path) ELSE Join(Cwd, path)

(***************************************************************************)
(* internal/security                                                       *)
(***************************************************************************)
ErrPathOutsideAllowed == "ErrPathOutsideAllowed"
ErrSymlinkOperationDenied == "ErrSymlinkOperationDenied"
ErrNullByte == "ErrNullByte"
ErrEmptyPath == "ErrEmptyPath"
ErrNoValidAncestor == "ErrNoValidAncestor"

\* IsPathWithinAllowedDirectories with the prefix test on the bare directory
\* name, no separator appended
IsPathWithinBarePrefix(path, allowedDirs) ==
    IF Len(allowedDirs) = 0 THEN FALSE
    ELSE \E i \in 1..Len(allowedDirs) : HasPrefix(Clean(path), Clean(allowedDirs[i]))

\* security.IsPathWithinAllowedDirectories
IsPathWithinAllowedDirectories(path, allowedDirs) ==
    IF Len(allowedDirs) = 0 THEN FALSE
    ELSE
        LET Holds(cleanPath, cleanAllowed) ==
                \/ cleanPath = cleanAllowed
                \/ HasPrefix(cleanPath, cleanAllowed \o <<Sep>>)
            UnderAny(cleanPath) ==
                \E i \in 1..Len(allowedDirs) : Holds(cleanPath, Clean(allowedDirs[i]))
        IN  UnderAny(Clean(path))

\* security.resolveAllowedDirs
resolveAllowedDirs(f, allowedDirs) ==
    LET OrOriginal(r, dir) == IF r.err = "" THEN r.path ELSE dir
    IN  [i \in 1..Len(allowedDirs) |->
            OrOriginal(EvalSymlinks(f, allowedDirs[i]), allowedDirs[i])]

\* WithinOrDenied with the containment result ignored
WithinOrDeniedUnchecked(resolvedPath, resolvedAllowed) == Ok(resolvedPath)

\* The closing check of every validator: the resolved path, or
\* ErrPathOutsideAllowed when no resolved allowed directory holds it
WithinOrDenied(resolvedPath, resolvedAllowed) ==
    IF ~IsPathWithinAllowedDirectories(resolvedPath, resolvedAllowed)
    THEN Err(ErrPathOutsideAllowed)
    ELSE Ok(resolvedPath)

\* security.ValidatePathWithResolved
ValidatePathWithResolved(f, path, allowedDirs, resolvedAllowed) ==
    IF path = <<>> THEN Err(ErrEmptyPath)
    ELSE IF ContainsRune(path, NUL) THEN Err(ErrNullByte)
    ELSE
        LET Closing(resolved) ==
                IF resolved.err # "" THEN resolved
                ELSE WithinOrDenied(resolved.path, resolvedAllowed)
            OnParent(resolvedParent, normalizedPath) ==
                IF resolvedParent.err # "" THEN resolvedParent
                ELSE Ok(Join(resolvedParent.path, Base(normalizedPath)))
            Missing(parentInfo, parentDir, normalizedPath) ==
                IF parentInfo.err = "" THEN
                    IF parentInfo.kind # "dir"
                    THEN Err("parent path is not a directory")
                    ELSE OnParent(EvalSymlinks(f, parentDir), normalizedPath)
                ELSE Ok(normalizedPath)
            MissingIn(parentDir, normalizedPath) ==
                Missing(Stat(f, parentDir), parentDir, normalizedPath)
            Resolved(info, normalizedPath) ==
                IF info.err = "" THEN EvalSymlinks(f, normalizedPath)
                ELSE IF IsNotExist(info.err)
                THEN MissingIn(Dir(normalizedPath), normalizedPath)
                ELSE Ok(normalizedPath)
            Normalized(normalizedPath) ==
                Closing(Resolved(Lstat(f, normalizedPath), normalizedPath))
        IN  Normalized(NormalizePath(path))

\* security.ValidatePath
ValidatePath(f, path, allowedDirs) ==
    ValidatePathWithResolved(f, path, allowedDirs, resolveAllowedDirs(f, allowedDirs))

\* ValidateFinalPath with the symlink check moved behind the containment check
ValidateFinalPathContainmentFirst(f, path, allowedDirs) ==
    IF path = <<>> THEN Err(ErrEmptyPath)
    ELSE IF ContainsRune(path, NUL) THEN Err(ErrNullByte)
    ELSE
        LET Closing(resolved, info) ==
                IF resolved.err # "" THEN resolved
                ELSE IF ~IsPathWithinAllowedDirectories(resolved.path,
                            resolveAllowedDirs(f, allowedDirs))
                THEN Err(ErrPathOutsideAllowed)
                ELSE IF info.kind = "link" THEN Err(ErrSymlinkOperationDenied)
                ELSE resolved
            Existing(info, normalizedPath) ==
                IF info.err # "" THEN Err(info.err)
                ELSE Closing(EvalSymlinks(f, normalizedPath), info)
            Normalized(normalizedPath) ==
                Existing(Lstat(f, normalizedPath), normalizedPath)
        IN  Normalized(NormalizePath(path))

\* security.ValidateFinalPath
ValidateFinalPath(f, path, allowedDirs) ==
    IF path = <<>> THEN Err(ErrEmptyPath)
    ELSE IF ContainsRune(path, NUL) THEN Err(ErrNullByte)
    ELSE
        LET Closing(resolved) ==
                IF resolved.err # "" THEN resolved
                ELSE WithinOrDenied(resolved.path, resolveAllowedDirs(f, allowedDirs))
            Existing(info, normalizedPath) ==
                IF info.err # "" THEN Err(info.err)
                ELSE IF info.kind = "link" THEN Err(ErrSymlinkOperationDenied)
                ELSE Closing(EvalSymlinks(f, normalizedPath))
            Normalized(normalizedPath) ==
                Existing(Lstat(f, normalizedPath), normalizedPath)
        IN  Normalized(NormalizePath(path))

\* The ancestor loop of the two creation validators: walk up from parentDir
\* to the first path os.Stat finds, resolve it and reattach the rest.
RECURSIVE NearestAncestor(_, _, _)
NearestAncestor(f, parentDir, normalizedPath) ==
    IF parentDir = Root \/ parentDir = Dot
    THEN [err |-> "", path |-> normalizedPath, found |-> FALSE]
    ELSE IF Stat(f, parentDir).err = "" THEN
        LET Reattached(resolvedParent) ==
                IF resolvedParent.err # ""
                THEN [err |-> resolvedParent.err, path |-> <<>>, found |-> FALSE]
                ELSE [err |-> "",
                      path |-> Join(resolvedParent.path,
                                    Rel(parentDir, normalizedPath)),
                      found |-> TRUE]
        IN  Reattached(EvalSymlinks(f, parentDir))
    ELSE NearestAncestor(f, Dir(parentDir), normalizedPath)

\* security.ValidateFinalPathForCreation
ValidateFinalPathForCreation(f, path, allowedDirs) ==
    IF path = <<>> THEN Err(ErrEmptyPath)
    ELSE IF ContainsRune(path, NUL) THEN Err(ErrNullByte)
    ELSE
        LET Closing(resolved) ==
                IF resolved.err # "" THEN resolved
                ELSE WithinOrDenied(resolved.path, resolveAllowedDirs(f, allowedDirs))
            Created(anc) ==
                IF anc.err # "" THEN Err(anc.err)
                ELSE IF ~anc.found THEN Err(ErrNoValidAncestor)
                ELSE WithinOrDenied(anc.path, resolveAllowedDirs(f, allowedDirs))
            Final(info, normalizedPath) ==
                IF info.err = "" THEN
                    IF info.kind = "link" THEN Err(ErrSymlinkOperationDenied)
                    ELSE Closing(EvalSymlinks(f, normalizedPath))
                ELSE IF ~IsNotExist(info.err) THEN Err(info.err)
                ELSE Created(NearestAncestor(f, Dir(normalizedPath), normalizedPath))
            Normalized(normalizedPath) ==
                Final(Lstat(f, normalizedPath), normalizedPath)
        IN  Normalized(NormalizePath(path))

\* security.ValidatePathForCreationWithResolved
ValidatePathForCreationWithResolved(f, path, allowedDirs, resolvedAllowed) ==
    IF path = <<>> THEN Err(ErrEmptyPath)
    ELSE IF ContainsRune(path, NUL) THEN Err(ErrNullByte)
    ELSE
        LET Created(anc) ==
                IF anc.err # "" THEN Err(anc.err)
                ELSE WithinOrDenied(anc.path, resolvedAllowed)
            Normalized(normalizedPath) ==
                Created(NearestAncestor(f, Dir(normalizedPath), normalizedPath))
        IN  Normalized(NormalizePath(path))

\* security.ValidatePathForCreation
ValidatePathForCreation(f, path, allowedDirs) ==
    ValidatePathForCreationWithResolved(f, path, allowedDirs,
        resolveAllowedDirs(f, allowedDirs))

\* The root choice shared by ValidateNoSymlinksInPath and safeMkdirAll: the
\* longest allowed directory that is the path or a lexical ancestor of it,
\* the empty string when there is none.
RECURSIVE LongestRoot(_, _, _, _)
LongestRoot(normalized, allowedDirs, i, allowedRoot) ==
    IF i > Len(allowedDirs) THEN allowedRoot
    ELSE
        LET Longer(normalizedDir) ==
                IF /\ \/ normalized = normalizedDir
                      \/ HasPrefix(normalized, normalizedDir \o <<Sep>>)
                   /\ Len(normalizedDir) > Len(allowedRoot)
                THEN LongestRoot(normalized, allowedDirs, i + 1, normalizedDir)
                ELSE LongestRoot(normalized, allowedDirs, i + 1, allowedRoot)
        IN  Longer(NormalizePath(allowedDirs[i]))

\* The segment loop of ValidateNoSymlinksInPath
RECURSIVE NoSymlinkSegments(_, _, _)
NoSymlinkSegments(f, current, parts) ==
    IF parts = <<>> THEN ""
    ELSE IF Head(parts) = <<>> THEN NoSymlinkSegments(f, current, Tail(parts))
    ELSE
        LET Segment(info, cur) ==
                IF info.err # "" THEN (IF IsNotExist(info.err) THEN "" ELSE info.err)
                ELSE IF info.kind = "link" THEN ErrSymlinkOperationDenied
                ELSE NoSymlinkSegments(f, cur, Tail(parts))
            At(cur) == Segment(Lstat(f, cur), cur)
        IN  At(Join(current, Head(parts)))

\* security.ValidateNoSymlinksInPath; "" is a nil error
ValidateNoSymlinksInPath(f, path, allowedDirs) ==
    LET Segments(relative, allowedRoot) ==
            IF relative = Dot THEN ""
            ELSE NoSymlinkSegments(f, allowedRoot, Split(relative))
        From(allowedRoot, normalized) ==
            IF allowedRoot = <<>> THEN ErrPathOutsideAllowed
            ELSE Segments(Rel(allowedRoot, normalized), allowedRoot)
        Normalized(normalized) ==
            From(LongestRoot(normalized, allowedDirs, 1, <<>>), normalized)
    IN  Normalized(NormalizePath(path))

(***************************************************************************)
(* os calls that change the filesystem; each returns the error and the     *)
(* filesystem it leaves                                                    *)
(***************************************************************************)
\* permission bits; the process umask clears the group and other write bits
Perm0600 == {"ur", "uw"}
Perm0644 == {"ur", "uw", "gr", "or"}
Perm0666 == {"ur", "uw", "gr", "gw", "or", "ow"}
Umask == {"gw", "ow"}

Done(g) == [err |-> "", fs |-> g]
Failed(e, g) == [err |-> e, fs |-> g]

\* the directory entry a create, mkdir, unlink or rename of path p acts on:
\* the parent chain is followed, the last element is not
EntryOf(f, p) ==
    LET InParent(w) ==
            IF w.err # "" THEN Err(w.err)
            ELSE IF KindAt(f, w.path) # "dir" THEN Err("ENOTDIR")
            ELSE Ok(Child(w.path, Base(p)))
    IN  InParent(EvalSymlinks(f, Dir(p)))

Put(f, p, node) == [q \in DOMAIN f \cup {p} |-> IF q = p THEN node ELSE f[q]]
Drop(f, p) == [q \in DOMAIN f \ {p} |-> f[q]]

\* os.Mkdir
Mkdir(f, p) ==
    LET AtEntry(e) ==
            IF e.err # "" THEN Failed(e.err, f)
            ELSE IF e.path \in DOMAIN f THEN Failed("EEXIST", f)
            ELSE Done(Put(f, e.path, DirNode))
    IN  AtEntry(EntryOf(f, p))

\* os.MkdirAll
RECURSIVE MkdirAll(_, _)
MkdirAll(f, path) ==
    LET Made(made, again, g) ==
            IF made.err = "" THEN made
            ELSE IF again.err = "" /\ again.kind = "dir" THEN Done(g)
            ELSE made
        Below(up) ==
            IF up.err # "" THEN up
            ELSE Made(Mkdir(up.fs, path), Lstat(up.fs, path), up.fs)
        Start(dir) ==
            IF dir.err = "" THEN
                IF dir.kind = "dir" THEN Done(f) ELSE Failed("ENOTDIR", f)
            ELSE Below(IF Dir(path) = Root THEN Done(f) ELSE MkdirAll(f, Dir(path)))
    IN  Start(Stat(f, path))

\* os.OpenFile(name, O_WRONLY|O_CREATE|O_EXCL, perm): a new empty file
OpenExcl(f, name, perm) ==
    LET AtEntry(e) ==
            IF e.err # "" THEN Failed(e.err, f)
            ELSE IF e.path \in DOMAIN f THEN Failed("EEXIST", f)
            ELSE Done(Put(f, e.path, FileNode(<<>>, perm \ Umask)))
    IN  AtEntry(EntryOf(f, name))

\* File.Write on the file opened at name
WriteData(f, name, data) ==
    LET AtEntry(e) == Put(f, e.path, [f[e.path] EXCEPT !.data = data])
    IN  AtEntry(EntryOf(f, name))

\* os.Remove: unlink a file or symlink, rmdir an empty directory
Remove(f, p) ==
    LET AtEntry(e) ==
            IF e.err # "" THEN Failed(e.err, f)
            ELSE IF e.path \notin DOMAIN f THEN Failed("ENOENT", f)
            ELSE IF /\ f[e.path].kind = "dir"
                    /\ \E q \in DOMAIN f : HasPrefix(q, e.path \o <<Sep>>)
            THEN Failed("ENOTEMPTY", f)
            ELSE Done(Drop(f, e.path))
    IN  AtEntry(EntryOf(f, p))

\* os.RemoveAll: the entry and everything beneath it; symlinks are unlinked,
\* never followed
RemoveAll(f, p) ==
    LET AtEntry(e) ==
            IF e.err # "" \/ e.path \notin DOMAIN f THEN Done(f)
            ELSE Done([q \in {r \in DOMAIN f :
                                r # e.path /\ ~HasPrefix(r, e.path \o <<Sep>>)}
                        |-> f[q]])
    IN  AtEntry(EntryOf(f, p))

\* os.Rename: the entry oldpath names (a directory with all beneath it) takes
\* the name newpath; neither final element is followed when it is a symlink,
\* and an entry at newpath is replaced when the kinds allow it
Rename(f, oldpath, newpath) ==
    LET Beneath(d) == {q \in DOMAIN f : HasPrefix(q, d \o <<Sep>>)}
        Carried(o, n) ==
            LET Moving == {o} \cup Beneath(o)
                NewName(q) == n \o SubSeq(q, Len(o) + 1, Len(q))
                Staying == DOMAIN f \ (Moving \cup {n})
            IN  [q \in Staying \cup {NewName(m) : m \in Moving} |->
                    IF q \in Staying THEN f[q]
                    ELSE f[CHOOSE m \in Moving : NewName(m) = q]]
        Moved(o, n) ==
            IF o.err # "" THEN Failed(o.err, f)
            ELSE IF o.path \notin DOMAIN f THEN Failed("ENOENT", f)
            ELSE IF n.err # "" THEN Failed(n.err, f)
            ELSE IF n.path = o.path THEN Done(f)
            ELSE IF f[o.path].kind = "dir" THEN
                IF HasPrefix(n.path, o.path \o <<Sep>>) THEN Failed("EINVAL", f)
                ELSE IF n.path \in DOMAIN f /\ f[n.path].kind # "dir"
                THEN Failed("ENOTDIR", f)
                ELSE IF Beneath(n.path) # {} THEN Failed("ENOTEMPTY", f)
                ELSE Done(Carried(o.path, n.path))
            ELSE IF n.path \in DOMAIN f /\ f[n.path].kind = "dir"
            THEN Failed("EISDIR", f)
            ELSE Done(Carried(o.path, n.path))
    IN  Moved(EntryOf(f, oldpath), EntryOf(f, newpath))


(***************************************************************************)
(* internal/registry                                                       *)
(***************************************************************************)
\* The filter of registry.New and Registry.Set: the normalized form of every
\* argument that os.Stat finds to be a directory, in argument order
RECURSIVE ValidDirs(_, _)
ValidDirs(f, ds) ==
    IF ds = <<>> THEN <<>>
    ELSE
        LET Kept(info, normalized) ==
                IF info.err = "" /\ info.kind = "dir"
                THEN <<normalized>> \o ValidDirs(f, Tail(ds))
                ELSE ValidDirs(f, Tail(ds))
            Normalized(normalized) == Kept(Stat(f, normalized), normalized)
        IN  Normalized(NormalizePath(Head(ds)))

(***************************************************************************)
(* internal/tools: write_file                                              *)
(***************************************************************************)
\* the name ".tmp-" + 16 random hex digits of the temp file
TmpBase == <<".", "t">>

\* where an I/O step of atomicWriteFile may fail for reasons outside the model
FailPoints == {"none", "rand", "create", "write", "sync", "close", "rename"}

\* what atomicWriteFile returns: the error, the step it came from and the
\* filesystem left behind
Wrote(e, step, g) == [err |-> e, step |-> step, fs |-> g]

\* Deferred with the os.Remove left out
DeferredSkipped(g, tmpName) == g

\* The deferred function of atomicWriteFile, which runs on every return after
\* the temp file was created except the successful one: os.Remove(tmpName),
\* its error dropped
Deferred(g, tmpName) == Remove(g, tmpName).fs

\* tools.atomicWriteFile; failAt names the I/O step the host makes fail
atomicWriteFile(f, path, data, perm, allowedDirs, failAt) ==
    LET Renamed(renamed, written, tmpName) ==
            IF renamed.err # ""
            THEN Wrote(renamed.err, "rename", Deferred(written, tmpName))
            ELSE Wrote("", "done", renamed.fs)
        Written(written, tmpName) ==
            IF failAt \in {"sync", "close", "rename"}
            THEN Wrote("EIO", failAt, Deferred(written, tmpName))
            ELSE Renamed(Rename(written, tmpName, path), written, tmpName)
        Opened(opened, tmpName) ==
            IF opened.err # "" THEN Wrote(opened.err, "create", f)
            ELSE IF failAt = "write"
            THEN Wrote("EIO", "write", Deferred(opened.fs, tmpName))
            ELSE Written(WriteData(opened.fs, tmpName, data), tmpName)
        Validated(v, tmpName) ==
            IF v.err # "" THEN Wrote(v.err, "validate", f)
            ELSE IF failAt = "rand" THEN Wrote("EIO", "rand", f)
            ELSE IF failAt = "create" THEN Wrote("EACCES", "create", f)
            ELSE Opened(OpenExcl(f, tmpName, perm), tmpName)
    IN  Validated(ValidateFinalPathForCreation(f, path, allowedDirs),
                  Join(Dir(path), TmpBase))

\* The creation loop of safeMkdirAll
RECURSIVE MkdirSegments(_, _, _, _)
MkdirSegments(f, current, parts, allowedDirs) ==
    IF parts = <<>> THEN Done(f)
    ELSE IF Head(parts) = <<>> THEN MkdirSegments(f, current, Tail(parts), allowedDirs)
    ELSE
        LET Made(made, cur) ==
                IF made.err # "" THEN made
                ELSE MkdirSegments(made.fs, cur, Tail(parts), allowedDirs)
            Create(v, cur) ==
                IF v.err # "" THEN Failed(v.err, f) ELSE Made(Mkdir(f, cur), cur)
            Segment(info, cur) ==
                IF info.err = "" THEN
                    IF info.kind = "link" THEN Failed(ErrSymlinkOperationDenied, f)
                    ELSE IF info.kind # "dir"
                    THEN Failed("path segment is not a directory", f)
                    ELSE MkdirSegments(f, cur, Tail(parts), allowedDirs)
                ELSE IF ~IsNotExist(info.err) THEN Failed(info.err, f)
                ELSE Create(ValidatePathForCreation(f, cur, allowedDirs), cur)
            At(cur) == Segment(Lstat(f, cur), cur)
        IN  At(Join(current, Head(parts)))

\* The creation loop walking through symbolic links to directories
RECURSIVE MkdirSegmentsThroughLinks(_, _, _, _)
MkdirSegmentsThroughLinks(f, current, parts, allowedDirs) ==
    IF parts = <<>> THEN Done(f)
    ELSE IF Head(parts) = <<>>
    THEN MkdirSegmentsThroughLinks(f, current, Tail(parts), allowedDirs)
    ELSE
        LET Made(made, cur) ==
                IF made.err # "" THEN made
                ELSE MkdirSegmentsThroughLinks(made.fs, cur, Tail(parts), allowedDirs)
            Create(v, cur) ==
                IF v.err # "" THEN Failed(v.err, f) ELSE Made(Mkdir(f, cur), cur)
            Segment(info, cur) ==
                IF info.err = "" THEN
                    IF info.kind # "dir"
                    THEN Failed("path segment is not a directory", f)
                    ELSE MkdirSegmentsThroughLinks(f, cur, Tail(parts), allowedDirs)
                ELSE IF ~IsNotExist(info.err) THEN Failed(info.err, f)
                ELSE Create(ValidatePathForCreation(f, cur, allowedDirs), cur)
            At(cur) == Segment(Stat(f, cur), cur)
        IN  At(Join(current, Head(parts)))

\* safeMkdirAll walking through symbolic links to directories
safeMkdirAllThroughLinks(f, path, allowedDirs) ==
    LET Segments(relative, allowedRoot) ==
            IF relative = Dot THEN Done(f)
            ELSE MkdirSegmentsThroughLinks(f, allowedRoot, Split(relative), allowedDirs)
        From(allowedRoot, normalized) ==
            IF allowedRoot = <<>> THEN Failed(ErrPathOutsideAllowed, f)
            ELSE Segments(Rel(allowedRoot, normalized), allowedRoot)
        Vetted(v, normalized) ==
            IF v.err # "" THEN Failed(v.err, f)
            ELSE From(LongestRoot(normalized, allowedDirs, 1, <<>>), normalized)
        Normalized(normalized) ==
            Vetted(ValidatePathForCreation(f, normalized, allowedDirs), normalized)
    IN  Normalized(NormalizePath(path))

\* safeMkdirAll as a plain os.MkdirAll of the directory
safeMkdirAllFollowing(f, path, allowedDirs) == MkdirAll(f, NormalizePath(path))

\* tools.safeMkdirAll
safeMkdirAll(f, path, allowedDirs) ==
    LET Segments(relative, allowedRoot) ==
            IF relative = Dot THEN Done(f)
            ELSE MkdirSegments(f, allowedRoot, Split(relative), allowedDirs)
        From(allowedRoot, normalized) ==
            IF allowedRoot = <<>> THEN Failed(ErrPathOutsideAllowed, f)
            ELSE Segments(Rel(allowedRoot, normalized), allowedRoot)
        Vetted(v, noLinks, normalized) ==
            IF v.err # "" THEN Failed(v.err, f)
            ELSE IF noLinks # "" THEN Failed(noLinks, f)
            ELSE From(LongestRoot(normalized, allowedDirs, 1, <<>>), normalized)
        Normalized(normalized) ==
            Vetted(ValidatePathForCreation(f, normalized, allowedDirs),
                   ValidateNoSymlinksInPath(f, normalized, allowedDirs),
                   normalized)
    IN  Normalized(NormalizePath(path))

\* A handler's outcome: err is "" for a text result and the cause of an error
\* result otherwise, stage the step that produced it, res the resolved path
Outcome(e, stage, res, f) == [err |-> e, stage |-> stage, res |-> res, fs |-> f]

\* tools.HandleWriteFile
HandleWriteFile(f, allowedDirs, path, content, failAt) ==
    LET Finished(w, resolvedPath) ==
            IF w.err # "" THEN Outcome(w.err, "failed to write file", resolvedPath, w.fs)
            ELSE Outcome("", "ok", resolvedPath, w.fs)
        Parents(made, resolvedPath) ==
            IF made.err # ""
            THEN Outcome(made.err, "failed to create directories", resolvedPath, made.fs)
            ELSE Finished(atomicWriteFile(made.fs, resolvedPath, content, Perm0644,
                                          allowedDirs, failAt), resolvedPath)
        Validated(v) ==
            IF v.err # "" THEN Outcome(v.err, "path validation failed", <<>>, f)
            ELSE Parents(safeMkdirAll(f, Dir(path), allowedDirs), v.path)
    IN  Validated(ValidatePathForCreation(f, path, allowedDirs))

(***************************************************************************)
(* internal/tools: create_directory, delete_directory                      *)
(***************************************************************************)
\* tools.HandleCreateDirectory
HandleCreateDirectory(f, allowedDirs, path) ==
    LET Finished(made, resolvedPath) ==
            IF made.err # ""
            THEN Outcome(made.err, "failed to create directory", resolvedPath, made.fs)
            ELSE Outcome("", "ok", resolvedPath, made.fs)
        Validated(v) ==
            IF v.err # "" THEN Outcome(v.err, "path validation failed", <<>>, f)
            ELSE Finished(MkdirAll(f, v.path), v.path)
    IN  Validated(ValidatePathForCreation(f, path, allowedDirs))

\* the entries of directory d
Children(f, d) ==
    {p \in DOMAIN f :
        /\ HasPrefix(p, d \o <<Sep>>)
        /\ \A i \in (Len(d) + 2)..Len(p) : p[i] # Sep}

\* rejectSymlinkEntries looking at the entries of root only, not below them
rejectSymlinkEntriesShallow(f, root) ==
    \E c \in Children(f, root) : f[c].kind = "link"

\* tools.rejectSymlinkEntries: filepath.WalkDir below root reports a symlink.
\* WalkDir reads each directory and descends into the entries that are
\* directories; a symlink is an entry, never descended into.
RECURSIVE rejectSymlinkEntries(_, _)
rejectSymlinkEntries(f, root) ==
    \E c \in Children(f, root) :
        \/ f[c].kind = "link"
        \/ f[c].kind = "dir" /\ rejectSymlinkEntries(f, c)

\* isAllowedRoot comparing the first allowed directory only
isAllowedRootFirstOnly(f, allowedDirs, resolvedPath) ==
    /\ Len(allowedDirs) > 0
    /\ Clean(resolveAllowedDirs(f, allowedDirs)[1]) = Clean(resolvedPath)

\* The first guard of HandleDeleteDirectory: the path is an allowed directory,
\* each allowed directory resolved where it resolves
isAllowedRoot(f, allowedDirs, resolvedPath) ==
    LET Equal(resolvedAllowed, cleanPath) ==
            \E i \in 1..Len(resolvedAllowed) : Clean(resolvedAllowed[i]) = cleanPath
    IN  Equal(resolveAllowedDirs(f, allowedDirs), Clean(resolvedPath))

\* The second guard, on a recursive delete: an allowed directory is the path
\* or lies beneath it
holdsAllowedRoot(f, allowedDirs, resolvedPath) ==
    LET Holding(resolvedAllowed) ==
            \E i \in 1..Len(resolvedAllowed) :
                IsPathWithinAllowedDirectories(resolvedAllowed[i], <<resolvedPath>>)
    IN  Holding(resolveAllowedDirs(f, allowedDirs))

\* tools.HandleDeleteDirectory
HandleDeleteDirectory(f, allowedDirs, path, recursive) ==
    LET Removed(r, resolvedPath) ==
            IF r.err # ""
            THEN Outcome(r.err, "failed to delete directory", resolvedPath, r.fs)
            ELSE Outcome("", "ok", resolvedPath, r.fs)
        Statted(info, resolvedPath) ==
            IF info.err # "" THEN Outcome(info.err, "failed to stat path", resolvedPath, f)
            ELSE IF info.kind # "dir"
            THEN Outcome("ENOTDIR", "path is not a directory", resolvedPath, f)
            ELSE IF isAllowedRoot(f, allowedDirs, resolvedPath)
            THEN Outcome("EPERM", "cannot delete an allowed root directory",
                         resolvedPath, f)
            ELSE IF recursive THEN
                IF rejectSymlinkEntries(f, resolvedPath)
                THEN Outcome("symlink", "failed to validate directory contents",
                             resolvedPath, f)
                ELSE IF holdsAllowedRoot(f, allowedDirs, resolvedPath)
                THEN Outcome("EPERM",
                        "cannot recursively delete a directory containing an allowed directory",
                        resolvedPath, f)
                ELSE Removed(RemoveAll(f, resolvedPath), resolvedPath)
            ELSE Removed(Remove(f, resolvedPath), resolvedPath)
        Validated(v) ==
            IF v.err # "" THEN
                IF IsNotExist(v.err)
                THEN Outcome(v.err, "directory does not exist", <<>>, f)
                ELSE Outcome(v.err, "path validation failed", <<>>, f)
            ELSE Statted(Stat(f, v.path), v.path)
    IN  Validated(ValidateFinalPath(f, path, allowedDirs))


(***************************************************************************)
(* internal/tools: delete_file                                             *)
(***************************************************************************)
\* HandleDeleteFile without its info.IsDir() test
HandleDeleteFileAnyKind(f, allowedDirs, path) ==
    LET Removed(r, resolvedPath) ==
            IF r.err # ""
            THEN Outcome(r.err, "failed to delete file", resolvedPath, r.fs)
            ELSE Outcome("", "ok", resolvedPath, r.fs)
        Validated(v) ==
            IF v.err # "" THEN Outcome(v.err, "path validation failed", <<>>, f)
            ELSE Removed(Remove(f, v.path), v.path)
    IN  Validated(ValidateFinalPath(f, path, allowedDirs))

\* tools.HandleDeleteFile
HandleDeleteFile(f, allowedDirs, path) ==
    LET Removed(r, resolvedPath) ==
            IF r.err # ""
            THEN Outcome(r.err, "failed to delete file", resolvedPath, r.fs)
            ELSE Outcome("", "ok", resolvedPath, r.fs)
        Statted(info, resolvedPath) ==
            IF info.err # "" THEN Outcome(info.err, "failed to stat path", resolvedPath, f)
            ELSE IF info.kind = "dir"
            THEN Outcome("EISDIR", "path is a directory", resolvedPath, f)
            ELSE Removed(Remove(f, resolvedPath), resolvedPath)
        Validated(v) ==
            IF v.err # "" THEN
                IF IsNotExist(v.err)
                THEN Outcome(v.err, "file does not exist", <<>>, f)
                ELSE Outcome(v.err, "path validation failed", <<>>, f)
            ELSE Statted(Stat(f, v.path), v.path)
    IN  Validated(ValidateFinalPath(f, path, allowedDirs))

(***************************************************************************)
(* internal/tools: move_file                                               *)
(***************************************************************************)
\* HandleMoveFile without its test that the destination exists
HandleMoveFileOnto(f, allowedDirs, source, destination) ==
    LET Renamed(r, resolvedDst) ==
            IF r.err # "" THEN Outcome(r.err, "failed to move", resolvedDst, r.fs)
            ELSE Outcome("", "ok", resolvedDst, r.fs)
        ToDst(d, resolvedSrc) ==
            IF d.err # ""
            THEN Outcome(d.err, "destination path validation failed", <<>>, f)
            ELSE Renamed(Rename(f, resolvedSrc, d.path), d.path)
        FromSrc(v) ==
            IF v.err # "" THEN Outcome(v.err, "source path validation failed", <<>>, f)
            ELSE IF Stat(f, v.path).err # ""
            THEN Outcome(Stat(f, v.path).err, "source does not exist", <<>>, f)
            ELSE ToDst(ValidatePathForCreation(f, destination, allowedDirs), v.path)
    IN  FromSrc(ValidatePath(f, source, allowedDirs))

\* tools.HandleMoveFile
HandleMoveFile(f, allowedDirs, source, destination) ==
    LET Renamed(r, resolvedDst) ==
            IF r.err # "" THEN Outcome(r.err, "failed to move", resolvedDst, r.fs)
            ELSE Outcome("", "ok", resolvedDst, r.fs)
        ToDst(d, resolvedSrc) ==
            IF d.err # ""
            THEN Outcome(d.err, "destination path validation failed", <<>>, f)
            ELSE IF Stat(f, d.path).err = ""
            THEN Outcome("EEXIST", "destination already exists", d.path, f)
            ELSE Renamed(Rename(f, resolvedSrc, d.path), d.path)
        FromSrc(v) ==
            IF v.err # "" THEN Outcome(v.err, "source path validation failed", <<>>, f)
            ELSE IF Stat(f, v.path).err # ""
            THEN Outcome(Stat(f, v.path).err, "source does not exist", <<>>, f)
            ELSE ToDst(ValidatePathForCreation(f, destination, allowedDirs), v.path)
    IN  FromSrc(ValidatePath(f, source, allowedDirs))

(***************************************************************************)
(* internal/tools: copy_file, with pkg/stream.CopyFileStreaming            *)
(***************************************************************************)
\* os.Chmod on the file at name
Chmod(f, name, perm) ==
    LET AtEntry(e) == Put(f, e.path, [f[e.path] EXCEPT !.perm = perm])
    IN  AtEntry(EntryOf(f, name))

\* stream.createTempFile: exclusive create with mode 0600
createTempFile(f, name) == OpenExcl(f, name, Perm0600)

\* stream.CopyFileStreaming
CopyFileStreaming(f, src, dst) ==
    LET Renamed(renamed, copied, tmpPath) ==
            IF renamed.err # "" THEN Failed(renamed.err, Remove(copied, tmpPath).fs)
            ELSE Done(renamed.fs)
        Copied(copied, tmpPath) == Renamed(Rename(copied, tmpPath, dst), copied, tmpPath)
        Opened(opened, srcNode, tmpPath) ==
            IF opened.err # "" THEN Failed(opened.err, f)
            ELSE Copied(Chmod(WriteData(opened.fs, tmpPath, srcNode.data),
                              tmpPath, srcNode.perm),
                        tmpPath)
        Source(srcInfo, tmpPath) ==
            IF srcInfo.err # "" THEN Failed(srcInfo.err, f)
            ELSE IF srcInfo.kind = "dir" THEN Failed("EISDIR", f)
            ELSE Opened(createTempFile(f, tmpPath), f[srcInfo.at], tmpPath)
    IN  Source(Stat(f, src), Join(Dir(dst), TmpBase))

\* tools.ensureNoSymlink ("" is nil)
ensureNoSymlink(f, path) ==
    LET Seen(info) ==
            IF info.err # "" THEN (IF IsNotExist(info.err) THEN "" ELSE info.err)
            ELSE IF info.kind = "link" THEN ErrSymlinkOperationDenied
            ELSE ""
    IN  Seen(Lstat(f, path))

\* HandleCopyFile without its test of the overwrite argument
HandleCopyFileOverwriting(f, allowedDirs, source, destination, overwrite) ==
    LET Copied(r, resolvedDst) ==
            IF r.err # "" THEN Outcome(r.err, "failed to copy file", resolvedDst, r.fs)
            ELSE Outcome("", "ok", resolvedDst, r.fs)
        Guarded(e, resolvedSrc, resolvedDst) ==
            IF e # "" THEN Outcome(e, "destination path validation failed", <<>>, f)
            ELSE Copied(CopyFileStreaming(f, resolvedSrc, resolvedDst), resolvedDst)
        NoLinks(e, resolvedSrc, resolvedDst) ==
            IF e # "" THEN Outcome(e, "destination path validation failed", <<>>, f)
            ELSE IF Lstat(f, resolvedDst).err = ""
            THEN Guarded(ensureNoSymlink(f, resolvedDst), resolvedSrc, resolvedDst)
            ELSE Copied(CopyFileStreaming(f, resolvedSrc, resolvedDst), resolvedDst)
        ToDst(d, resolvedSrc) ==
            IF d.err # ""
            THEN Outcome(d.err, "destination path validation failed", <<>>, f)
            ELSE NoLinks(ValidateNoSymlinksInPath(f, destination, allowedDirs),
                          resolvedSrc, d.path)
        Statted(srcInfo, resolvedSrc) ==
            IF srcInfo.err # "" THEN Outcome(srcInfo.err, "failed to stat source", <<>>, f)
            ELSE IF srcInfo.kind = "dir"
            THEN Outcome("EISDIR", "source is a directory", <<>>, f)
            ELSE ToDst(ValidatePathForCreation(f, destination, allowedDirs), resolvedSrc)
        FromSrc(v) ==
            IF v.err # "" THEN Outcome(v.err, "source path validation failed", <<>>, f)
            ELSE Statted(Stat(f, v.path), v.path)
    IN  FromSrc(ValidatePath(f, source, allowedDirs))

\* tools.HandleCopyFile
HandleCopyFile(f, allowedDirs, source, destination, overwrite) ==
    LET Copied(r, resolvedDst) ==
            IF r.err # "" THEN Outcome(r.err, "failed to copy file", resolvedDst, r.fs)
            ELSE Outcome("", "ok", resolvedDst, r.fs)
        Guarded(e, resolvedSrc, resolvedDst) ==
            IF e # "" THEN Outcome(e, "destination path validation failed", <<>>, f)
            ELSE Copied(CopyFileStreaming(f, resolvedSrc, resolvedDst), resolvedDst)
        NoLinks(e, resolvedSrc, resolvedDst) ==
            IF e # "" THEN Outcome(e, "destination path validation failed", <<>>, f)
            ELSE IF Lstat(f, resolvedDst).err = "" THEN
                IF ~overwrite
                THEN Outcome("EEXIST", "destination already exists", resolvedDst, f)
                ELSE Guarded(ensureNoSymlink(f, resolvedDst), resolvedSrc, resolvedDst)
            ELSE Copied(CopyFileStreaming(f, resolvedSrc, resolvedDst), resolvedDst)
        ToDst(d, resolvedSrc) ==
            IF d.err # ""
            THEN Outcome(d.err, "destination path validation failed", <<>>, f)
            ELSE NoLinks(ValidateNoSymlinksInPath(f, destination, allowedDirs),
                         resolvedSrc, d.path)
        Statted(srcInfo, resolvedSrc) ==
            IF srcInfo.err # "" THEN Outcome(srcInfo.err, "failed to stat source", <<>>, f)
            ELSE IF srcInfo.kind = "dir"
            THEN Outcome("EISDIR", "source is a directory", <<>>, f)
            ELSE ToDst(ValidatePathForCreation(f, destination, allowedDirs), resolvedSrc)
        FromSrc(v) ==
            IF v.err # "" THEN Outcome(v.err, "source path validation failed", <<>>, f)
            ELSE Statted(Stat(f, v.path), v.path)
    IN  FromSrc(ValidatePath(f, source, allowedDirs))

(***************************************************************************)
(* internal/tools: search_files                                            *)
(***************************************************************************)
\* the characters of the model in byte order
CharOrder == <<".", "/", "a", "b", "l", "n", "s", "t", "x", "y">>
Rank(c) == CHOOSE i \in 1..Len(CharOrder) : CharOrder[i] = c

\* a < b as Go compares strings
RECURSIVE StringLess(_, _)
StringLess(a, b) ==
    IF b = <<>> THEN FALSE
    ELSE IF a = <<>> THEN TRUE
    ELSE IF Head(a) = Head(b) THEN StringLess(Tail(a), Tail(b))
    ELSE Rank(Head(a)) < Rank(Head(b))

\* the strings of a set in ascending order
RECURSIVE SortStrings(_)
SortStrings(S) ==
    IF S = {} THEN <<>>
    ELSE
        LET From(m) == <<m>> \o SortStrings(S \ {m})
        IN  From(CHOOSE x \in S : \A y \in S \ {x} : StringLess(x, y))

\* os.ReadDir / readDirNames of the directory at path d, sorted by name: the
\* names of the entries of the directory d resolves to
ReadDirNames(f, d) ==
    LET Of(w) == SortStrings({Base(p) : p \in Children(f, w.path)})
    IN  Of(EvalSymlinks(f, d))

\* strings.Contains
Contains(s, substr) ==
    \E i \in 0..(Len(s) - Len(substr)) : HasPrefix(SubSeq(s, i + 1, Len(s)), substr)

\* strings.ReplaceAll for a non-empty old
RECURSIVE ReplaceAll(_, _, _)
ReplaceAll(s, old, new) ==
    IF Len(s) < Len(old) THEN s
    ELSE IF HasPrefix(s, old) THEN new \o ReplaceAll(SubSeq(s, Len(old) + 1, Len(s)), old, new)
    ELSE <<Head(s)>> \o ReplaceAll(Tail(s), old, new)

\* strings.TrimPrefix
TrimPrefix(s, prefix) ==
    IF HasPrefix(s, prefix) THEN SubSeq(s, Len(prefix) + 1, Len(s)) ELSE s

\* glob.Glob.Match for a pattern of literal characters and *, compiled without
\* separators, so that * and ** match any run of characters, "/" included
RECURSIVE GlobMatch(_, _)
GlobMatch(pat, s) ==
    IF pat = <<>> THEN s = <<>>
    ELSE IF Head(pat) = "*"
    THEN GlobMatch(Tail(pat), s) \/ (s # <<>> /\ GlobMatch(pat, Tail(s)))
    ELSE s # <<>> /\ Head(s) = Head(pat) /\ GlobMatch(Tail(pat), Tail(s))

\* tools.compileGlobs
compileGlobs(pattern) ==
    <<pattern>>
        \o (IF Contains(pattern, <<"*", "*", Sep>>)
            THEN <<ReplaceAll(pattern, <<"*", "*", Sep>>, <<>>)>> ELSE <<>>)
        \o (IF HasPrefix(pattern, <<"*", "*">>)
            THEN <<TrimPrefix(pattern, <<"*", "*">>)>> ELSE <<>>)
        \o (IF HasPrefix(pattern, <<"*", "*", Sep>>)
            THEN <<TrimPrefix(pattern, <<"*", "*", Sep>>)>> ELSE <<>>)

\* tools.matchesAny
matchesAny(globs, path) == \E i \in 1..Len(globs) : GlobMatch(globs[i], path)

\* the exclude globs of search_files: compileGlobs of every pattern, appended
RECURSIVE CompileAll(_)
CompileAll(patterns) ==
    IF patterns = <<>> THEN <<>>
    ELSE compileGlobs(Head(patterns)) \o CompileAll(Tail(patterns))

\* filepath.Walk under the callback of HandleSearchFiles: the matches from
\* walkPath on. Walk takes every entry by os.Lstat, so a symlink is visited
\* as an entry and never descended into.
RECURSIVE SearchWalkFrom(_, _, _, _, _)
RECURSIVE SearchWalkAll(_, _, _, _, _, _)
SearchWalkFrom(f, resolvedPath, walkPath, matchGlobs, excludeGlobs) ==
    LET Visit(relPath) ==
            IF matchesAny(excludeGlobs, relPath) THEN <<>>
            ELSE (IF relPath # Dot /\ matchesAny(matchGlobs, relPath)
                  THEN <<walkPath>> ELSE <<>>)
                 \o (IF f[walkPath].kind = "dir"
                     THEN SearchWalkAll(f, resolvedPath, walkPath,
                                        ReadDirNames(f, walkPath), matchGlobs, excludeGlobs)
                     ELSE <<>>)
    IN  Visit(Rel(resolvedPath, walkPath))
SearchWalkAll(f, resolvedPath, dir, names, matchGlobs, excludeGlobs) ==
    IF names = <<>> THEN <<>>
    ELSE SearchWalkFrom(f, resolvedPath, Child(dir, Head(names)), matchGlobs, excludeGlobs)
         \o SearchWalkAll(f, resolvedPath, dir, Tail(names), matchGlobs, excludeGlobs)

SearchWalk(f, resolvedPath, matchGlobs, excludeGlobs) ==
    SearchWalkFrom(f, resolvedPath, resolvedPath, matchGlobs, excludeGlobs)

\* tools.HandleSearchFiles: res is the list of matches
HandleSearchFiles(f, allowedDirs, path, pattern, excludePatterns) ==
    LET Statted(info, resolvedPath) ==
            IF info.err # "" THEN Outcome(info.err, "failed to stat path", <<>>, f)
            ELSE IF info.kind # "dir"
            THEN Outcome("ENOTDIR", "path is not a directory", <<>>, f)
            ELSE Outcome("", "ok",
                         SearchWalk(f, resolvedPath, compileGlobs(pattern),
                                    CompileAll(excludePatterns)),
                         f)
        Validated(v) ==
            IF v.err # "" THEN Outcome(v.err, "path validation failed", <<>>, f)
            ELSE Statted(Stat(f, v.path), v.path)
    IN  Validated(ValidatePath(f, path, allowedDirs))

(***************************************************************************)
(* internal/tools: directory_tree                                          *)
(***************************************************************************)
\* the longest path the host resolves (PATH_MAX, scaled to the model's trees):
\* os.Stat of a longer one fails, which ends the descent into a symlink cycle
PathMax == 16

\* filesystem.TreeEntry, and the results of buildTree: an entry, nil or an error
TreeEntry(name, type, children) == [Name |-> name, Type |-> type, Children |-> children]
Built(entry) == [err |-> "", nil |-> FALSE, entry |-> entry]
BuiltNil == [err |-> "", nil |-> TRUE, entry |-> <<>>]
BuildFailed(e) == [err |-> e, nil |-> TRUE, entry |-> <<>>]

\* tools.buildTree, and its loop over the sorted entries of a directory
RECURSIVE buildTree(_, _, _)
RECURSIVE BuildChildren(_, _, _, _, _)
buildTree(f, path, excludeGlobs) ==
    LET Listed(kids, name) ==
            IF kids.err # "" THEN BuildFailed(kids.err)
            ELSE Built(TreeEntry(name, "directory", kids.entry))
        Shown(info, name) ==
            IF matchesAny(excludeGlobs, name) THEN BuiltNil
            ELSE IF info.kind = "dir"
            THEN Listed(BuildChildren(f, path, ReadDirNames(f, path), excludeGlobs, <<>>),
                        name)
            ELSE Built(TreeEntry(name, "file", <<>>))
        Statted(info) ==
            IF info.err # "" THEN BuildFailed(info.err)
            ELSE Shown(info, Base(path))
    IN  IF Len(path) > PathMax THEN BuildFailed("ENAMETOOLONG")
        ELSE Statted(Stat(f, path))
BuildChildren(f, path, names, excludeGlobs, children) ==
    IF names = <<>> THEN Built(children)
    ELSE
        LET Next1(child) ==
                IF child.err # "" THEN BuildFailed(child.err)
                ELSE BuildChildren(f, path, Tail(names), excludeGlobs,
                                   IF child.nil THEN children
                                   ELSE Append(children, child.entry))
        IN  Next1(buildTree(f, Join(path, Head(names)), excludeGlobs))

\* tools.HandleDirectoryTree: res is the tree (<<>> for nil)
HandleDirectoryTree(f, allowedDirs, path, excludePatterns) ==
    LET Grown(tree, resolvedPath) ==
            IF tree.err # "" THEN Outcome(tree.err, "failed to build tree", <<>>, f)
            ELSE Outcome("", "ok", tree.entry, f)
        Statted(info, resolvedPath) ==
            IF info.err # "" THEN Outcome(info.err, "failed to stat path", <<>>, f)
            ELSE IF info.kind # "dir"
            THEN Outcome("ENOTDIR", "path is not a directory", <<>>, f)
            ELSE Grown(buildTree(f, resolvedPath, excludePatterns), resolvedPath)
        Validated(v) ==
            IF v.err # "" THEN Outcome(v.err, "path validation failed", <<>>, f)
            ELSE Statted(Stat(f, v.path), v.path)
    IN  Validated(ValidatePath(f, path, allowedDirs))

(***************************************************************************)
(* internal/tools: edit_file                                               *)
(***************************************************************************)
NL == "\n"
White == {" ", "\t", "\n", "\r"}

RECURSIVE TrimLeft(_)
TrimLeft(s) == IF s # <<>> /\ s[1] \in White THEN TrimLeft(Tail(s)) ELSE s

RECURSIVE TrimRight(_)
TrimRight(s) ==
    IF s # <<>> /\ s[Len(s)] \in White THEN TrimRight(SubSeq(s, 1, Len(s) - 1)) ELSE s

\* strings.TrimSpace
TrimSpace(s) == TrimRight(TrimLeft(s))

\* tools.getIndent: the leading run of spaces and tabs
RECURSIVE getIndent(_)
getIndent(s) ==
    IF s # <<>> /\ s[1] \in {" ", "\t"} THEN <<s[1]>> \o getIndent(Tail(s)) ELSE <<>>

\* tools.normalizeWhitespace
normalizeWhitespace(s) ==
    LET Trimmed(lines) == [i \in 1..Len(lines) |-> TrimSpace(lines[i])]
    IN  JoinWith(Trimmed(SplitOn(s, NL)), NL)

\* a finite set of integers as an ascending sequence
RECURSIVE Ascending(_)
Ascending(S) ==
    IF S = {} THEN <<>>
    ELSE
        LET From(m) == <<m>> \o Ascending(S \ {m})
        IN  From(CHOOSE x \in S : \A y \in S : x <= y)

\* The scan loops of findMatch: every 0-based offset at which text occurs
Offsets(content, text) ==
    Ascending({idx \in 0..(Len(content) - Len(text)) :
                  HasPrefix(SubSeq(content, idx + 1, Len(content)), text)})

\* tools.findMatch
findMatch(content, oldText, requireUnique) ==
    LET NoMatch(e) == [err |-> e, Matches |-> <<>>, NormalizedMatches |-> <<>>]
        Counted(Matches, NormalizedMatches) ==
            IF Len(Matches) = 0 /\ Len(NormalizedMatches) = 0
            THEN NoMatch("oldText not found in file")
            ELSE IF /\ requireUnique
                    /\ (IF Len(Matches) = 0 THEN Len(NormalizedMatches)
                        ELSE Len(Matches)) > 1
            THEN NoMatch("oldText matches multiple locations")
            ELSE [err |-> "", Matches |-> Matches,
                  NormalizedMatches |-> NormalizedMatches]
        Scanned(OldTextNormalized) ==
            Counted(Offsets(content, oldText),
                    IF OldTextNormalized # <<>>
                    THEN Offsets(normalizeWhitespace(content), OldTextNormalized)
                    ELSE <<>>)
    IN  IF oldText = <<>> THEN NoMatch("oldText cannot be empty")
        ELSE Scanned(normalizeWhitespace(oldText))

\* tools.replaceWithIndentPreservation
replaceWithIndentPreservation(content, oldText, newText, occurrence) ==
    LET Replaced(lines, oldLines, newLines, i, indent) ==
            JoinWith(SubSeq(lines, 1, i - 1)
                        \o [k \in 1..Len(newLines) |->
                              IF k = 1 THEN indent \o TrimSpace(newLines[k])
                              ELSE indent \o getIndent(newLines[k])
                                      \o TrimSpace(newLines[k])]
                        \o SubSeq(lines, i + Len(oldLines), Len(lines)), NL)
        Picked(lines, oldLines, newLines, starts) ==
            IF occurrence < 1 \/ occurrence > Len(starts) THEN content
            ELSE Replaced(lines, oldLines, newLines, starts[occurrence],
                          getIndent(lines[starts[occurrence]]))
        Lines(lines, oldLines, newLines) ==
            Picked(lines, oldLines, newLines,
                   Ascending({i \in 1..(Len(lines) - Len(oldLines) + 1) :
                      \A j \in 1..Len(oldLines) :
                          TrimSpace(lines[i + j - 1]) = TrimSpace(oldLines[j])}))
    IN  Lines(SplitOn(content, NL), SplitOn(oldText, NL), SplitOn(newText, NL))

\* applyMatch taking the first exact match whatever the occurrence
applyMatchFirst(content, oldText, newText, info, occurrence) ==
    IF Len(info.Matches) > 0 THEN
        LET At(index) ==
                SubSeq(content, 1, index) \o newText
                    \o SubSeq(content, index + Len(oldText) + 1, Len(content))
        IN  At(info.Matches[1])
    ELSE replaceWithIndentPreservation(content, oldText, newText, occurrence)

\* tools.applyMatch
applyMatch(content, oldText, newText, info, occurrence) ==
    IF Len(info.Matches) > 0 THEN
        LET At(index) ==
                SubSeq(content, 1, index) \o newText
                    \o SubSeq(content, index + Len(oldText) + 1, Len(content))
        IN  At(info.Matches[occurrence])
    ELSE replaceWithIndentPreservation(content, oldText, newText, occurrence)

\* An EditOperation: the optional fields carry a flag telling whether the
\* request gave them
Edit(old, new, hasUnique, unique, hasOcc, occ) ==
    [OldText |-> old, NewText |-> new, hasRequireUnique |-> hasUnique,
     RequireUnique |-> unique, hasOccurrence |-> hasOcc, Occurrence |-> occ]

\* The edit loop passing over an edit that fails instead of returning
RECURSIVE ApplyEditsSkipping(_, _)
ApplyEditsSkipping(newContent, edits) ==
    IF edits = <<>> THEN [err |-> "", content |-> newContent]
    ELSE
        LET Skip == ApplyEditsSkipping(newContent, Tail(edits))
            Matched(edit, matchInfo, occurrence) ==
                IF matchInfo.err # "" \/ occurrence > Len(matchInfo.Matches) THEN Skip
                ELSE ApplyEditsSkipping(applyMatch(newContent, edit.OldText, edit.NewText,
                                                   matchInfo, occurrence), Tail(edits))
            One(edit) ==
                IF edit.OldText = <<>> \/ (edit.hasOccurrence /\ edit.Occurrence < 1)
                THEN Skip
                ELSE Matched(edit,
                             findMatch(newContent, edit.OldText,
                                       IF edit.hasRequireUnique
                                       THEN edit.RequireUnique ELSE TRUE),
                             IF edit.hasOccurrence THEN edit.Occurrence ELSE 1)
        IN  One(Head(edits))

\* The edit loop of HandleEditFile
RECURSIVE ApplyEdits(_, _)
ApplyEdits(newContent, edits) ==
    IF edits = <<>> THEN [err |-> "", content |-> newContent]
    ELSE
        LET Stop(e) == [err |-> e, content |-> newContent]
            Matched(edit, matchInfo, occurrence) ==
                IF matchInfo.err # "" THEN Stop(matchInfo.err)
                ELSE IF occurrence > Len(matchInfo.Matches)
                THEN Stop("occurrence out of range")
                ELSE ApplyEdits(applyMatch(newContent, edit.OldText, edit.NewText,
                                           matchInfo, occurrence), Tail(edits))
            One(edit) ==
                IF edit.OldText = <<>> THEN Stop("oldText cannot be empty")
                ELSE IF edit.hasOccurrence /\ edit.Occurrence < 1
                THEN Stop("occurrence must be >= 1")
                ELSE Matched(edit,
                             findMatch(newContent, edit.OldText,
                                       IF edit.hasRequireUnique
                                       THEN edit.RequireUnique ELSE TRUE),
                             IF edit.hasOccurrence THEN edit.Occurrence ELSE 1)
        IN  One(Head(edits))

\* tools.HandleEditFile
HandleEditFile(f, allowedDirs, path, edits, dryRun, failAt) ==
    LET Finished(w, resolvedPath) ==
            IF w.err # "" THEN Outcome(w.err, "failed to write file", resolvedPath, w.fs)
            ELSE Outcome("", "ok", resolvedPath, w.fs)
        Statted(info, newContent, resolvedPath) ==
            IF info.err # ""
            THEN Outcome(info.err, "failed to stat file", resolvedPath, f)
            ELSE Finished(atomicWriteFile(f, resolvedPath, newContent,
                                          f[info.at].perm, allowedDirs, failAt),
                          resolvedPath)
        Edited(applied, resolvedPath) ==
            IF applied.err # "" THEN Outcome(applied.err, "edit", resolvedPath, f)
            ELSE IF dryRun THEN Outcome("", "dry run", resolvedPath, f)
            ELSE Statted(Stat(f, resolvedPath), applied.content, resolvedPath)
        Validated(v) ==
            IF v.err # "" THEN Outcome(v.err, "path validation failed", <<>>, f)
            ELSE IF KindAt(f, v.path) # "file"
            THEN Outcome("EISDIR", "failed to read file", v.path, f)
            ELSE Edited(ApplyEdits(f[v.path].data, edits), v.path)
    IN  IF path = <<>> THEN Outcome("missing", "path parameter is required", <<>>, f)
        ELSE Validated(ValidateFinalPath(f, path, allowedDirs))


(***************************************************************************)
(* stream: TailFile                                                        *)
(***************************************************************************)
\* stream.TailChunkSize: 1024 in the program, scaled to the buffers explored
TailChunkSize == 2

\* The scan of one chunk, from its last byte (0-based i) to its first: the
\* lines closed by a newline, and start, the offset of the first newline
RECURSIVE TailScan(_, _, _, _)
TailScan(data, i, start, newLines) ==
    IF i < 0 THEN [start |-> start, newLines |-> newLines]
    ELSE IF data[i + 1] = NL
    THEN TailScan(data, i - 1, i,
                  IF i < start - 1 THEN <<SubSeq(data, i + 2, start)>> \o newLines
                  ELSE newLines)
    ELSE TailScan(data, i - 1, start, newLines)

\* The chunk loop of TailFile and what follows it
RECURSIVE TailLoop(_, _, _, _, _)
TailLoop(content, n, lines, leftover, offset) ==
    IF Len(lines) <= n /\ offset > 0 THEN
        LET Scanned(s, data, at) ==
                TailLoop(content, n, s.newLines \o lines,
                         IF s.start > 0 THEN SubSeq(data, 1, s.start) ELSE <<>>, at)
            Read(data, at) == Scanned(TailScan(data, Len(data) - 1, Len(data), <<>>), data, at)
            Chunk(readSize) ==
                Read(SubSeq(content, offset - readSize + 1, offset) \o leftover,
                     offset - readSize)
        IN  Chunk(IF offset < TailChunkSize THEN offset ELSE TailChunkSize)
    ELSE
        LET Cut(all) ==
                JoinWith(IF Len(all) > n THEN SubSeq(all, Len(all) - n + 1, Len(all))
                         ELSE all, NL)
        IN  Cut(IF Len(leftover) > 0 /\ Len(lines) < n THEN <<leftover>> \o lines
                ELSE lines)

\* stream.TailFile
TailFile(f, path, n) ==
    LET Opened(info) ==
            IF info.err # "" THEN Outcome(info.err, "open", <<>>, f)
            ELSE IF info.kind # "file" THEN Outcome("EISDIR", "read", <<>>, f)
            ELSE IF Len(f[info.at].data) = 0 THEN Outcome("", "ok", <<>>, f)
            ELSE Outcome("", "ok",
                         TailLoop(f[info.at].data, n, <<>>, <<>>, Len(f[info.at].data)), f)
    IN  IF n <= 0 THEN Outcome("", "ok", <<>>, f)
        ELSE Opened(Stat(f, path))

(***************************************************************************)
(* The filesystems and requests explored                                   *)
(***************************************************************************)
\* /b is the allowed tree, /bx a directory outside it whose name starts with
\* the name of /b, /l a symlink to /b at the top level
B == <<Sep, "b">>
BX == <<Sep, "b", "x">>
L == <<Sep, "l">>
Names == {<<"a">>, <<"l">>}
Under(S) == {Child(p, n) : p \in S, n \in Names}
BA == Child(B, <<"a">>)
BAA == Child(BA, <<"a">>)
BXA == Child(BX, <<"a">>)
BL == Child(B, <<"l">>)
BAL == Child(BA, <<"l">>)
BAAL == Child(BAA, <<"l">>)

BaseFs ==
    (B :> DirNode) @@ (BA :> DirNode) @@ (BAA :> DirNode) @@ (BX :> DirNode)
        @@ (BXA :> FileNode(<<"s">>, Perm0600)) @@ (L :> LinkNode(B))

\* the directory lists the server may be started with
RootArgs == {<<B>>, <<B, BAA>>, <<L>>, <<BXA>>}

\* where the environment creates and removes entries, and what it creates
EnvPlaces == {BL, BAL, BAAL}
LinkTargets == {BX, BXA, BA, BAL}
EnvNodes ==
    {LinkNode(t) : t \in LinkTargets}
        \cup {DirNode, FileNode(<<"x">>, Perm0600), FileNode(<<"x">>, Perm0666)}

\* how many entries the environment keeps at its places
MaxEnvEntries == 2

\* the path arguments of the requests
InputPaths ==
    {B, BX, BXA, L} \cup Under({B}) \cup Under(Under({B}))
        \cup Under(Under(Under({B}))) \cup Under({L})
        \cup { <<>>,
               B \o <<Sep, NUL>>,
               B \o <<Sep, ".", ".", Sep, "b", "x", Sep, "a">>,
               <<"a", Sep, "l">> }

Content == <<"n">>
EditLists == { <<Edit(<<"x">>, <<"y">>, FALSE, TRUE, FALSE, 1)>> }

\* last: the request (operation, path or destination argument, source or
\* pattern argument, boolean argument, edits or exclude patterns,
\* line count, injected I/O failure), the filesystem it was served on and the handler's
\* result
NoCall ==
    [op |-> "none", path |-> <<>>, source |-> <<>>, flag |-> FALSE, edits |-> <<>>,
     n |-> 0, fail |-> "none", before |-> <<>>, err |-> "", stage |-> "", res |-> <<>>]
Call(op, path, flag, edits, failAt, before, o) ==
    [op |-> op, path |-> path, source |-> <<>>, flag |-> flag, edits |-> edits,
     n |-> 0, fail |-> failAt, before |-> before, err |-> o.err, stage |-> o.stage, res |-> o.res]
\* the same for a request that also names a source path
CallFrom(source, c) == [c EXCEPT !.source = source]
\* the same for a request that carries a line count
CallCount(n, c) == [c EXCEPT !.n = n]
Checked(v) == [err |-> v.err, stage |-> "", res |-> v.path]

\* The I/O failures worth injecting into a request: a request that ends before
\* atomicWriteFile runs has no I/O step to fail
FailuresFor(plain) ==
    IF plain.stage \in {"ok", "failed to write file"} THEN FailPoints ELSE {"none"}

InitFs ==
    /\ fs = BaseFs
    /\ \E args \in RootArgs : dirs = ValidDirs(BaseFs, args)
    /\ last = NoCall
    /\ cPath = <<>>
    /\ cRoots = <<>>
    /\ cRes = "unset"
    /\ proc = <<>>

\* A run is the environment arranging the filesystem and then one request
\* being served on it
Serving == last.op = "none"
Served == UNCHANGED <<dirs, cPath, cRoots, cRes, proc>>

\* The environment puts an entry at one of its places, in a real directory
EnvCreate ==
    /\ Serving
    /\ Cardinality(EnvPlaces \cap DOMAIN fs) < MaxEnvEntries
    /\ \E p \in EnvPlaces \ DOMAIN fs, node \in EnvNodes :
        /\ KindAt(fs, Dir(p)) = "dir"
        /\ node.target # p
        /\ fs' = Put(fs, p, node)
    /\ UNCHANGED <<dirs, last, cPath, cRoots, cRes, proc>>

\* The environment removes an entry it may have put
EnvRemove ==
    /\ Serving
    /\ \E p \in EnvPlaces \cap DOMAIN fs :
        /\ Remove(fs, p).err = ""
        /\ fs' = Drop(fs, p)
    /\ UNCHANGED <<dirs, last, cPath, cRoots, cRes, proc>>

\* Registry.Validate
CallValidatePath ==
    /\ Serving
    /\ \E p \in InputPaths :
        last' = Call("ValidatePath", p, FALSE, <<>>, "none", fs,
                     Checked(ValidatePath(fs, p, dirs)))
    /\ UNCHANGED fs
    /\ Served

\* Registry.ValidateForCreation
CallValidatePathForCreation ==
    /\ Serving
    /\ \E p \in InputPaths :
        last' = Call("ValidatePathForCreation", p, FALSE, <<>>, "none", fs,
                     Checked(ValidatePathForCreation(fs, p, dirs)))
    /\ UNCHANGED fs
    /\ Served

\* security.ValidateFinalPath on Registry.Get()
CallValidateFinalPath ==
    /\ Serving
    /\ \E p \in InputPaths :
        last' = Call("ValidateFinalPath", p, FALSE, <<>>, "none", fs,
                     Checked(ValidateFinalPath(fs, p, dirs)))
    /\ UNCHANGED fs
    /\ Served

\* security.ValidateFinalPathForCreation on Registry.Get()
CallValidateFinalPathForCreation ==
    /\ Serving
    /\ \E p \in InputPaths :
        last' = Call("ValidateFinalPathForCreation", p, FALSE, <<>>, "none", fs,
                     Checked(ValidateFinalPathForCreation(fs, p, dirs)))
    /\ UNCHANGED fs
    /\ Served

\* a write_file request
WriteFile ==
    /\ Serving
    /\ \E p \in InputPaths :
        LET Respond(failAt, o) ==
                /\ fs' = o.fs
                /\ last' = Call("write_file", p, FALSE, <<>>, failAt, fs, o)
            Inject(plain) ==
                \E failAt \in FailuresFor(plain) :
                    Respond(failAt,
                            IF failAt = "none" THEN plain
                            ELSE HandleWriteFile(fs, dirs, p, Content, failAt))
        IN  Inject(HandleWriteFile(fs, dirs, p, Content, "none"))
    /\ Served

\* an edit_file request
EditFile ==
    /\ Serving
    /\ \E p \in InputPaths, edits \in EditLists, dryRun \in BOOLEAN :
        LET Respond(failAt, o) ==
                /\ fs' = o.fs
                /\ last' = Call("edit_file", p, dryRun, edits, failAt, fs, o)
            Inject(plain) ==
                \E failAt \in FailuresFor(plain) :
                    Respond(failAt,
                            IF failAt = "none" THEN plain
                            ELSE HandleEditFile(fs, dirs, p, edits, dryRun, failAt))
        IN  Inject(HandleEditFile(fs, dirs, p, edits, dryRun, "none"))
    /\ Served

\* a create_directory request
CreateDirectory ==
    /\ Serving
    /\ \E p \in InputPaths :
        LET Respond(o) ==
                /\ fs' = o.fs
                /\ last' = Call("create_directory", p, FALSE, <<>>, "none", fs, o)
        IN  Respond(HandleCreateDirectory(fs, dirs, p))
    /\ Served

\* a delete_directory request
DeleteDirectory ==
    /\ Serving
    /\ \E p \in InputPaths, recursive \in BOOLEAN :
        LET Respond(o) ==
                /\ fs' = o.fs
                /\ last' = Call("delete_directory", p, recursive, <<>>, "none", fs, o)
        IN  Respond(HandleDeleteDirectory(fs, dirs, p, recursive))
    /\ Served

Next ==
    \/ EnvCreate
    \/ EnvRemove
    \/ CallValidatePath
    \/ CallValidatePathForCreation
    \/ CallValidateFinalPath
    \/ CallValidateFinalPathForCreation
    \/ WriteFile
    \/ EditFile
    \/ CreateDirectory
    \/ DeleteDirectory

Spec == InitFs /\ [][Next]_vars

(***************************************************************************)
(* The containment predicate on its own: IsPathWithinAllowedDirectories    *)
(* applied to every short string over the characters that matter to it     *)
(***************************************************************************)
Alphabet == {Sep, "a", "."}

\* longest path argument
MaxPathLen == 5

RECURSIVE StringsOfLen(_)
StringsOfLen(n) ==
    IF n = 0 THEN {<<>>}
    ELSE {Append(s, c) : s \in StringsOfLen(n - 1), c \in Alphabet}

PathArgs == UNION {StringsOfLen(k) : k \in 0..MaxPathLen}

\* allowed directories as a caller may pass them: clean and unclean, rooted
\* and relative, nested
DirArgs ==
    { <<Sep, "a">>, <<Sep, "a", Sep>>, <<Sep, "a", Sep, "a">>, <<Sep>>,
      <<"a">>, <<Sep, ".">>, <<Sep, "a", Sep, ".", ".">>, <<>> }

DirLists == {<<>>} \cup {<<d>> : d \in DirArgs} \cup {<<d, e>> : d, e \in DirArgs}

InitContain ==
    /\ fs = BaseFs
    /\ dirs = <<>>
    /\ last = NoCall
    /\ cPath \in PathArgs
    /\ cRoots \in DirLists
    /\ cRes = "unset"
    /\ proc = <<>>

CheckContain ==
    /\ cRes = "unset"
    /\ cRes' = IF IsPathWithinAllowedDirectories(cPath, cRoots) THEN "true" ELSE "false"
    /\ UNCHANGED <<fs, dirs, last, cPath, cRoots, proc>>

NextContain == CheckContain

SpecContain == InitContain /\ [][NextContain]_vars

(***************************************************************************)
(* The file tools: delete_file, move_file, copy_file, search_files and     *)
(* directory_tree, served on the same filesystems                          *)
(***************************************************************************)
\* a delete_file request
DeleteFile ==
    /\ Serving
    /\ \E p \in InputPaths :
        LET Respond(o) ==
                /\ fs' = o.fs
                /\ last' = Call("delete_file", p, FALSE, <<>>, "none", fs, o)
        IN  Respond(HandleDeleteFile(fs, dirs, p))
    /\ Served

\* the source and destination arguments of move_file and copy_file
SourcePaths == {BL, BAL, BAA, BXA, Child(L, <<"a">>)}
DestPaths == {BL, BAL, BAAL, BAA, BXA, Child(BL, <<"a">>), Child(L, <<"l">>)}

\* a move_file request
MoveFile ==
    /\ Serving
    /\ \E s \in SourcePaths, d \in DestPaths :
        LET Respond(o) ==
                /\ fs' = o.fs
                /\ last' = CallFrom(s, Call("move_file", d, FALSE, <<>>, "none", fs, o))
        IN  Respond(HandleMoveFile(fs, dirs, s, d))
    /\ Served

\* a copy_file request
CopyFile ==
    /\ Serving
    /\ \E s \in SourcePaths, d \in DestPaths, overwrite \in BOOLEAN :
        LET Respond(o) ==
                /\ fs' = o.fs
                /\ last' = CallFrom(s, Call("copy_file", d, overwrite, <<>>, "none", fs, o))
        IN  Respond(HandleCopyFile(fs, dirs, s, d, overwrite))
    /\ Served

\* the directories, match patterns and exclude lists of the walking tools
WalkRoots == {B, BA, BAA, BL, L, BX}
Patterns == { <<"*">>, <<"l">>, <<"*", "*", Sep, "l">>, <<"a", Sep, "*">> }
ExcludeLists == { <<>>, << <<"a">> >> }

\* a search_files request
SearchFiles ==
    /\ Serving
    /\ \E p \in WalkRoots, pattern \in Patterns, excludePatterns \in ExcludeLists :
        LET Respond(o) ==
                /\ fs' = o.fs
                /\ last' = CallFrom(pattern,
                                    Call("search_files", p, FALSE, excludePatterns,
                                         "none", fs, o))
        IN  Respond(HandleSearchFiles(fs, dirs, p, pattern, excludePatterns))
    /\ Served

\* a directory_tree request
DirectoryTree ==
    /\ Serving
    /\ \E p \in WalkRoots, excludePatterns \in ExcludeLists :
        LET Respond(o) ==
                /\ fs' = o.fs
                /\ last' = Call("directory_tree", p, FALSE, excludePatterns, "none", fs, o)
        IN  Respond(HandleDirectoryTree(fs, dirs, p, excludePatterns))
    /\ Served

NextFiles ==
    \/ EnvCreate
    \/ EnvRemove
    \/ DeleteFile
    \/ MoveFile
    \/ CopyFile
    \/ SearchFiles
    \/ DirectoryTree

SpecFiles == InitFs /\ [][NextFiles]_vars


(***************************************************************************)
(* edit_file on one file, over every short buffer and a family of edit     *)
(* lists                                                                   *)
(***************************************************************************)
\* the file edited, and the longest buffer it starts with
EditTarget == BL
MaxBufLen == 3
EditChars == {"x", " ", NL}

RECURSIVE BuffersOfLen(_)
BuffersOfLen(n) ==
    IF n = 0 THEN {<<>>}
    ELSE {Append(s, c) : s \in BuffersOfLen(n - 1), c \in EditChars}
Buffers == UNION {BuffersOfLen(n) : n \in 0..MaxBufLen}

\* the edits of a request: oldText, newText, requireUnique (absent, true,
\* false) and occurrence (absent, 0 .. 3)
OldTexts == {<<>>, <<"x">>, <<"x", "x">>, <<"x", " ">>, <<"y">>}
NewTexts == {<<>>, <<"y">>, <<"x", "x">>}
Edits ==
    {Edit(old, new, FALSE, TRUE, FALSE, 1) : old \in OldTexts, new \in NewTexts}
        \cup {Edit(old, new, TRUE, u, FALSE, 1) :
                old \in OldTexts, new \in NewTexts, u \in BOOLEAN}
        \cup {Edit(old, new, FALSE, TRUE, TRUE, k) :
                old \in OldTexts, new \in NewTexts, k \in 0..3}
        \cup {Edit(old, new, TRUE, u, TRUE, k) :
                old \in OldTexts, new \in NewTexts, u \in BOOLEAN, k \in 0..3}
FirstEdits ==
    {Edit(<<"x">>, <<"y">>, TRUE, FALSE, FALSE, 1),
     Edit(<<"x">>, <<"x", "x">>, TRUE, FALSE, TRUE, 2),
     Edit(<<" ">>, <<>>, FALSE, TRUE, FALSE, 1)}
EditArgs ==
    {<<e>> : e \in Edits} \cup {<<e1, e2>> : e1 \in FirstEdits, e2 \in Edits}

InitEdit ==
    /\ \E buffer \in Buffers : fs = Put(BaseFs, EditTarget, FileNode(buffer, Perm0644))
    /\ dirs = ValidDirs(BaseFs, <<B>>)
    /\ last = NoCall
    /\ cPath = <<>>
    /\ cRoots = <<>>
    /\ cRes = "unset"
    /\ proc = <<>>

\* an edit_file request on the file
EditBuffer ==
    /\ Serving
    /\ \E edits \in EditArgs, dryRun \in BOOLEAN :
        LET Respond(failAt, o) ==
                /\ fs' = o.fs
                /\ last' = Call("edit_file", EditTarget, dryRun, edits, failAt, fs, o)
            Inject(plain) ==
                \E failAt \in FailuresFor(plain) :
                    Respond(failAt,
                            IF failAt = "none" THEN plain
                            ELSE HandleEditFile(fs, dirs, EditTarget, edits, dryRun,
                                                failAt))
        IN  Inject(HandleEditFile(fs, dirs, EditTarget, edits, dryRun, "none"))
    /\ Served

NextEdit == EditBuffer
SpecEdit == InitEdit /\ [][NextEdit]_vars

(***************************************************************************)
(* TailFile on one file, over every short content and line count           *)
(***************************************************************************)
MaxTailLen == 5
MaxTailLines == 3

InitTail ==
    /\ \E k \in 0..MaxTailLen : \E content \in BuffersOfLen(k) :
            fs = Put(BaseFs, EditTarget, FileNode(content, Perm0644))
    /\ dirs = ValidDirs(BaseFs, <<B>>)
    /\ last = NoCall
    /\ cPath = <<>>
    /\ cRoots = <<>>
    /\ cRes = "unset"
    /\ proc = <<>>

\* a call of TailFile on the file
ReadTail ==
    /\ Serving
    /\ \E n \in 0..MaxTailLines :
        LET Respond(o) ==
                /\ fs' = o.fs
                /\ last' = CallCount(n, Call("tail", EditTarget, FALSE, <<>>, "none", fs, o))
        IN  Respond(TailFile(fs, EditTarget, n))
    /\ Served

NextTail == ReadTail
SpecTail == InitTail /\ [][NextTail]_vars

(***************************************************************************)
(* internal/tools: read_multiple_files, one goroutine per path             *)
(***************************************************************************)
\* tools.maxConcurrentReads, the capacity of the semaphore channel: 10 in the
\* program, scaled to the path lists explored
maxConcurrentReads == 2

\* the path lists of the requests
ReadLists ==
    { <<>>, <<BL>>, <<BXA, BL>>, <<BL, BA, BAL>>, <<BXA, BA, BAL, BL>>,
      <<BL, BXA, BL, BA>> }

\* fileResult, and its zero value in results
fileResult(path, content, err) == [path |-> path, content |-> content, err |-> err]
NoResult == fileResult(<<>>, <<>>, "")

\* the filesystem the request starts on: /b/l is a file
ReadFs == Put(BaseFs, BL, FileNode(<<"x">>, Perm0644))

\* reg.Validate(p) and os.Stat(resolvedPath) for every path of the lists, on the
\* filesystem with the file and on the one without it
ReadStates == {ReadFs, Drop(ReadFs, BL)}
ValidateOn ==
    [f \in ReadStates |->
        [p \in {BL, BA, BAL, BXA} |-> ValidatePath(f, p, ValidDirs(BaseFs, <<B>>))]]
StatOn ==
    [f \in ReadStates |->
        [p \in {ValidateOn[g][q].path : g \in ReadStates, q \in {BL, BA, BAL, BXA}} |->
            Stat(f, p)]]

InitRead ==
    /\ fs = ReadFs
    /\ dirs = ValidDirs(BaseFs, <<B>>)
    /\ last = NoCall
    /\ cPath = <<>>
    /\ cRoots = <<>>
    /\ cRes = "unset"
    /\ proc = <<>>

Workers == IF proc = <<>> THEN {} ELSE 1..Len(proc.paths)
Steady == UNCHANGED <<fs, dirs, last, cPath, cRoots, cRes>>
At(idx, pos) == proc # <<>> /\ idx \in Workers /\ proc.pc[idx] = pos

\* results = append(results, result) in place of results[idx] = result: the
\* results in the order the goroutines finish
StoreNext(results, idx, result) ==
    [results EXCEPT ![CHOOSE k \in DOMAIN results :
                        /\ results[k] = NoResult
                        /\ \A j \in 1..(k - 1) : results[j] # NoResult] = result]

\* results[idx] = result
Store(results, idx, result) == [results EXCEPT ![idx] = result]

\* the environment removes the file while the request is served
Unlink ==
    /\ Serving /\ proc # <<>> /\ BL \in DOMAIN fs
    /\ fs' = Drop(fs, BL)
    /\ UNCHANGED <<dirs, last, cPath, cRoots, cRes, proc>>

\* HandleReadMultipleFiles up to the loop: the paths argument, results, wg, sem
ReadMultipleFiles ==
    /\ Serving /\ proc = <<>>
    /\ \E paths \in ReadLists :
        IF Len(paths) = 0
        THEN /\ last' = Call("read_multiple_files", <<>>, FALSE, paths, "none", fs,
                             Outcome("no paths provided", "paths", <<>>, fs))
             /\ UNCHANGED proc
        ELSE /\ proc' = [paths |-> paths, i |-> 0, wg |-> 0, sem |-> 0,
                         pc |-> [k \in 1..Len(paths) |-> "go"],
                         resolvedPath |-> [k \in 1..Len(paths) |-> <<>>],
                         results |-> [k \in 1..Len(paths) |-> NoResult]]
             /\ UNCHANGED last
    /\ UNCHANGED <<fs, dirs, cPath, cRoots, cRes>>

\* one turn of the loop: wg.Add(1) and the go statement
Go ==
    /\ Serving /\ proc # <<>> /\ proc.i < Len(proc.paths)
    /\ proc' = [proc EXCEPT !.i = @ + 1, !.wg = @ + 1, !.pc[proc.i + 1] = "acquire"]
    /\ Steady

\* the send on a semaphore that never fills
AcquireUnbounded(idx) ==
    /\ At(idx, "acquire")
    /\ proc' = [proc EXCEPT !.sem = @ + 1, !.pc[idx] = "validate"]
    /\ Steady

\* sem <- struct{}{}
Acquire(idx) ==
    /\ At(idx, "acquire")
    /\ proc.sem < maxConcurrentReads
    /\ proc' = [proc EXCEPT !.sem = @ + 1, !.pc[idx] = "validate"]
    /\ Steady

\* reg.Validate(p)
Validate(idx) ==
    /\ At(idx, "validate")
    /\ proc' =
        LET Checked1(v) ==
                IF v.err # ""
                THEN [proc EXCEPT
                        !.results = Store(@, idx, fileResult(proc.paths[idx], <<>>, v.err)),
                        !.pc[idx] = "release"]
                ELSE [proc EXCEPT !.resolvedPath[idx] = v.path, !.pc[idx] = "stat"]
        IN  Checked1(ValidateOn[fs][proc.paths[idx]])
    /\ Steady

\* os.Stat(resolvedPath) and info.IsDir()
StatPath(idx) ==
    /\ At(idx, "stat")
    /\ proc' =
        LET Seen(info) ==
                IF info.err # ""
                THEN [proc EXCEPT
                        !.results = Store(@, idx, fileResult(proc.paths[idx], <<>>, info.err)),
                        !.pc[idx] = "release"]
                ELSE IF info.kind = "dir"
                THEN [proc EXCEPT
                        !.results = Store(@, idx, fileResult(proc.paths[idx], <<>>,
                                                             "path is a directory")),
                        !.pc[idx] = "release"]
                ELSE [proc EXCEPT !.pc[idx] = "read"]
        IN  Seen(StatOn[fs][proc.resolvedPath[idx]])
    /\ Steady

\* os.ReadFile(resolvedPath)
ReadPath(idx) ==
    /\ At(idx, "read")
    /\ proc' =
        LET Got(info) ==
                [proc EXCEPT
                    !.results = Store(@, idx,
                        IF info.err # "" THEN fileResult(proc.paths[idx], <<>>, info.err)
                        ELSE fileResult(proc.paths[idx], fs[info.at].data, "")),
                    !.pc[idx] = "release"]
        IN  Got(StatOn[fs][proc.resolvedPath[idx]])
    /\ Steady

\* the receive from sem written at the end of the goroutine's body, which the
\* early returns pass by
ReleaseAtEnd(idx) ==
    /\ At(idx, "release")
    /\ proc' = [proc EXCEPT !.sem = IF proc.results[idx].err = "" THEN @ - 1 ELSE @,
                            !.pc[idx] = "exit"]
    /\ Steady

\* the deferred <-sem
Release(idx) ==
    /\ At(idx, "release")
    /\ proc' = [proc EXCEPT !.sem = @ - 1, !.pc[idx] = "exit"]
    /\ Steady

\* the deferred wg.Done()
Done1(idx) ==
    /\ At(idx, "exit")
    /\ proc' = [proc EXCEPT !.wg = @ - 1, !.pc[idx] = "done"]
    /\ Steady

\* wg.Wait() and the response: one entry per element of results
Respond ==
    /\ Serving /\ proc # <<>> /\ proc.i = Len(proc.paths) /\ proc.wg = 0
    /\ last' = Call("read_multiple_files", <<>>, FALSE, proc.paths, "none", fs,
                    Outcome("", "ok",
                            [k \in 1..Len(proc.results) |->
                                [Path |-> proc.results[k].path,
                                 Content |-> proc.results[k].content,
                                 Error |-> proc.results[k].err]], fs))
    /\ UNCHANGED <<fs, dirs, cPath, cRoots, cRes, proc>>

NextRead ==
    \/ ReadMultipleFiles
    \/ Unlink
    \/ Go
    \/ \E idx \in Workers : Acquire(idx)
    \/ \E idx \in Workers : Validate(idx)
    \/ \E idx \in Workers : StatPath(idx)
    \/ \E idx \in Workers : ReadPath(idx)
    \/ \E idx \in Workers : Release(idx)
    \/ \E idx \in Workers : Done1(idx)
    \/ Respond

SpecRead == InitRead /\ [][NextRead]_vars

\* the same with the scheduler running some goroutine that can run
SpecReadLive == SpecRead /\ WF_vars(NextRead)

(***************************************************************************)
(* internal/registry: Set running beside Get, Validate and                 *)
(* ValidateForCreation                                                     *)
(*                                                                         *)
(* A Go slice is a header (the array it points into, its length); heap     *)
(* holds the arrays. proc.rdirs is the header in Registry.dirs, the        *)
(* variable dirs the list it denotes since the last assignment.            *)
(***************************************************************************)
\* how many Set calls a run has, and its reading goroutines
MaxSets == 2
Readers == {1, 2}

SetArgs == {<<>>, <<B>>, <<BX, BA>>, <<BXA, BAA, L>>}
ReaderOps == {"Get", "Validate", "ValidateForCreation"}

Slice(ptr, len) == [ptr |-> ptr, len |-> len]
\* the list a header denotes
Elements(heap, s) == SubSeq(heap[s.ptr], 1, s.len)
\* append(s, x): in place while the array has room, else into a new array
AppendTo(heap, s, x) ==
    IF s.len < Len(heap[s.ptr])
    THEN [heap |-> [heap EXCEPT ![s.ptr][s.len + 1] = x], slice |-> Slice(s.ptr, s.len + 1)]
    ELSE [heap |-> Append(heap, Elements(heap, s) \o <<x>>),
          slice |-> Slice(Len(heap) + 1, s.len + 1)]

\* validDirs := r.dirs[:0], the array of the current list used again
reuseDirs(heap, rdirs, n) == [heap |-> heap, slice |-> Slice(rdirs.ptr, 0)]

\* validDirs := make([]string, 0, len(dirs)): a new array of n empty strings
makeDirs(heap, rdirs, n) ==
    [heap |-> Append(heap, [k \in 1..n |-> <<>>]), slice |-> Slice(Len(heap) + 1, 0)]

\* a reading goroutine: its header, the list it denoted when taken, the list
\* read through it at the end
NoReader ==
    [pc |-> "idle", op |-> "none", dirs |-> Slice(0, 0), seen |-> <<>>, used |-> <<>>]

InitRegistry ==
    /\ fs = BaseFs
    /\ \E args \in SetArgs :
        /\ dirs = ValidDirs(BaseFs, args)
        /\ proc = [heap |-> <<ValidDirs(BaseFs, args)>>,
                   rdirs |-> Slice(1, Len(ValidDirs(BaseFs, args))),
                   writer |-> FALSE, readers |-> 0,
                   set |-> [pc |-> "idle", args |-> <<>>, validDirs |-> Slice(0, 0)],
                   sets |-> 0,
                   lists |-> {ValidDirs(BaseFs, args)},
                   rd |-> [r \in Readers |-> NoReader]]
    /\ last = NoCall
    /\ cPath = <<>>
    /\ cRoots = <<>>
    /\ cRes = "unset"

Kept == UNCHANGED <<fs, last, cPath, cRoots, cRes>>

\* Set: r.mu.Lock()
SetLock ==
    /\ proc.set.pc = "idle" /\ proc.sets < MaxSets
    /\ ~proc.writer /\ proc.readers = 0
    /\ \E args \in SetArgs :
        proc' = [proc EXCEPT !.writer = TRUE, !.sets = @ + 1,
                             !.set = [pc |-> "make", args |-> args,
                                      validDirs |-> Slice(0, 0)]]
    /\ UNCHANGED dirs /\ Kept

\* Set: validDirs := make([]string, 0, len(dirs))
SetMake ==
    /\ proc.set.pc = "make"
    /\ proc' =
        LET Made(m) == [proc EXCEPT !.heap = m.heap, !.set.validDirs = m.slice,
                                    !.set.pc = "loop"]
        IN  Made(makeDirs(proc.heap, proc.rdirs, Len(proc.set.args)))
    /\ UNCHANGED dirs /\ Kept

\* Set: one turn of the loop over dirs
SetLoop ==
    /\ proc.set.pc = "loop" /\ proc.set.args # <<>>
    /\ proc' =
        LET Grown(a) == [proc EXCEPT !.heap = a.heap, !.set.validDirs = a.slice,
                                     !.set.args = Tail(@)]
            Statted(info, normalized) ==
                IF info.err = "" /\ info.kind = "dir"
                THEN Grown(AppendTo(proc.heap, proc.set.validDirs, normalized))
                ELSE [proc EXCEPT !.set.args = Tail(@)]
            Normalized(normalized) == Statted(Stat(fs, normalized), normalized)
        IN  Normalized(NormalizePath(Head(proc.set.args)))
    /\ UNCHANGED dirs /\ Kept

\* Set: r.dirs = validDirs
SetAssign ==
    /\ proc.set.pc = "loop" /\ proc.set.args = <<>>
    /\ proc' = [proc EXCEPT !.rdirs = proc.set.validDirs, !.set.pc = "unlock",
                            !.lists = @ \cup {Elements(proc.heap, proc.set.validDirs)}]
    /\ dirs' = Elements(proc.heap, proc.set.validDirs)
    /\ Kept

\* Set: the deferred r.mu.Unlock()
SetUnlock ==
    /\ proc.set.pc = "unlock"
    /\ proc' = [proc EXCEPT !.writer = FALSE, !.set.pc = "idle"]
    /\ UNCHANGED dirs /\ Kept

\* Get, Validate, ValidateForCreation: r.mu.RLock()
RLock(r) ==
    /\ proc.rd[r].pc = "idle" /\ ~proc.writer
    /\ \E op \in ReaderOps :
        proc' = [proc EXCEPT !.readers = @ + 1,
                             !.rd[r] = [NoReader EXCEPT !.pc = "locked", !.op = op]]
    /\ UNCHANGED dirs /\ Kept

\* Get: result := make(...); copy(result, r.dirs), a new array with the
\* elements; Validate and ValidateForCreation: dirs := r.dirs, the header
Snapshot(r) ==
    /\ proc.rd[r].pc = "locked"
    /\ proc' =
        IF proc.rd[r].op = "Get"
        THEN [proc EXCEPT !.heap = Append(@, Elements(proc.heap, proc.rdirs)),
                          !.rd[r].dirs = Slice(Len(proc.heap) + 1, proc.rdirs.len),
                          !.rd[r].seen = Elements(proc.heap, proc.rdirs),
                          !.rd[r].pc = "taken"]
        ELSE [proc EXCEPT !.rd[r].dirs = proc.rdirs,
                          !.rd[r].seen = Elements(proc.heap, proc.rdirs),
                          !.rd[r].pc = "taken"]
    /\ UNCHANGED dirs /\ Kept

\* r.mu.RUnlock()
RUnlock(r) ==
    /\ proc.rd[r].pc = "taken"
    /\ proc' = [proc EXCEPT !.readers = @ - 1, !.rd[r].pc = "using"]
    /\ UNCHANGED dirs /\ Kept

\* the caller of Get, or security.ValidatePath / ValidatePathForCreation,
\* reads the list it was handed and returns
UseDirs(r) ==
    /\ proc.rd[r].pc = "using"
    /\ proc' = [proc EXCEPT !.rd[r].pc = "returned",
                            !.rd[r].used = Elements(proc.heap, proc.rd[r].dirs)]
    /\ UNCHANGED dirs /\ Kept

NextRegistry ==
    \/ SetLock
    \/ SetMake
    \/ SetLoop
    \/ SetAssign
    \/ SetUnlock
    \/ \E r \in Readers : RLock(r)
    \/ \E r \in Readers : Snapshot(r)
    \/ \E r \in Readers : RUnlock(r)
    \/ \E r \in Readers : UseDirs(r)

SpecRegistry == InitRegistry /\ [][NextRegistry]_vars

(***************************************************************************)
(* The allowed roots while a symbolic link on a root's path is re-pointed  *)
(***************************************************************************)
\* how many times the registry is replaced
MaxReplaces == 1

\* where the environment may point the link /l
RepointTargets == {B, BX, BA}

\* proc.built: the filesystem as it was when the registry was constructed or
\* last replaced; proc.sets: the replacements so far
InitRepoint ==
    /\ fs = BaseFs
    /\ \E args \in RootArgs : dirs = ValidDirs(BaseFs, args)
    /\ last = NoCall
    /\ cPath = <<>>
    /\ cRoots = <<>>
    /\ cRes = "unset"
    /\ proc = [built |-> BaseFs, sets |-> 0]

\* The environment re-points the symbolic link /l
Repoint ==
    /\ Serving
    /\ \E t \in RepointTargets \ {fs[L].target} : fs' = Put(fs, L, LinkNode(t))
    /\ UNCHANGED <<dirs, last, cPath, cRoots, cRes, proc>>

\* Registry.Set
SetDirs ==
    /\ Serving
    /\ proc.sets < MaxReplaces
    /\ \E args \in RootArgs : dirs' = ValidDirs(fs, args)
    /\ proc' = [built |-> fs, sets |-> proc.sets + 1]
    /\ UNCHANGED <<fs, last, cPath, cRoots, cRes>>

NextRepoint ==
    \/ Repoint
    \/ SetDirs
    \/ CallValidatePath
    \/ CallValidatePathForCreation
    \/ CallValidateFinalPath
    \/ CallValidateFinalPathForCreation

SpecRepoint == InitRepoint /\ [][NextRepoint]_vars

(***************************************************************************)
(* internal/tools: directory_tree, one call of buildTree per step          *)
(***************************************************************************)
\* how deep the goroutine's stack lets buildTree recurse
MaxStack == 9

\* the filesystems of the requests: /b/a/l leads back to its parent /b/a,
\* /b/a/a/l back to /b/a, /b/l on to /bx, or there is no link below /b
TreeStates ==
    { BaseFs,
      Put(BaseFs, BAL, LinkNode(BA)),
      Put(BaseFs, BAAL, LinkNode(BA)),
      Put(BaseFs, BL, LinkNode(BX)),
      Put(BaseFs, BL, FileNode(<<"x">>, Perm0644)) }

\* reg.Validate(path) for the paths of the requests
TreeValidateOn ==
    [f \in TreeStates |->
        [p \in WalkRoots |-> ValidatePath(f, p, ValidDirs(BaseFs, <<B>>))]]

\* the paths a walk of the filesystem f from path may come to within depth
\* calls, and os.Stat and the sorted os.ReadDir of each of them
RECURSIVE TreeReach(_, _, _)
TreeReach(f, path, depth) ==
    IF depth = 0 \/ Stat(f, path).err # "" \/ Stat(f, path).kind # "dir" THEN {path}
    ELSE {path} \cup UNION { TreeReach(f, Join(path, ReadDirNames(f, path)[i]), depth - 1) :
                                i \in 1..Len(ReadDirNames(f, path)) }
TreeReachOn ==
    [f \in TreeStates |->
        UNION { TreeReach(f, TreeValidateOn[f][p].path, MaxStack) :
                    p \in {q \in WalkRoots : TreeValidateOn[f][q].err = ""} }]
TreeStatOn == [f \in TreeStates |-> [p \in TreeReachOn[f] |-> Stat(f, p)]]
TreeReadDirOn ==
    [f \in TreeStates |->
        [p \in TreeReachOn[f] |->
            IF TreeStatOn[f][p].err = "" /\ TreeStatOn[f][p].kind = "dir"
            THEN ReadDirNames(f, p) ELSE <<>>]]

\* a call of buildTree on the stack: where it is, and its entries and children
Frame(path, pc, names, children) ==
    [path |-> path, pc |-> pc, names |-> names, children |-> children]

InitTree ==
    /\ fs \in TreeStates
    /\ dirs = ValidDirs(BaseFs, <<B>>)
    /\ last = NoCall
    /\ cPath = <<>>
    /\ cRoots = <<>>
    /\ cRes = "unset"
    /\ \E p \in WalkRoots, excludePatterns \in ExcludeLists :
        proc = [pc |-> "idle", path |-> p, excl |-> excludePatterns,
                stack |-> <<>>, out |-> Outcome("", "", <<>>, fs)]

Top == proc.stack[Len(proc.stack)]
Walking(pos) == proc.pc = "walk" /\ proc.stack # <<>> /\ Top.pc = pos
Finish(o) == [proc EXCEPT !.pc = "respond", !.stack = <<>>, !.out = o]

\* os.Stat without the host's limit on the length of a path
NeverTooLong(path) == FALSE

\* os.Stat fails on a path longer than the host resolves
TooLong(path) == Len(path) > PathMax

\* return nil, err: every caller up the stack returns the error in its turn
ReturnErr(e) == Finish(Outcome(e, "failed to build tree", <<>>, fs))

\* return entry, nil (or nil, nil) to the caller
ReturnEntry(child) ==
    IF Len(proc.stack) = 1
    THEN Finish(Outcome("", "ok", IF child.nil THEN <<>> ELSE child.entry, fs))
    ELSE [proc EXCEPT
            !.stack = [SubSeq(proc.stack, 1, Len(proc.stack) - 1) EXCEPT
                ![Len(proc.stack) - 1].children =
                    IF child.nil THEN @ ELSE Append(@, child.entry)]]

\* HandleDirectoryTree up to the first call of buildTree
TreeStart ==
    /\ proc.pc = "idle"
    /\ proc' =
        LET v == TreeValidateOn[fs][proc.path]
        IN  IF v.err # ""
            THEN Finish(Outcome(v.err, "path validation failed", <<>>, fs))
            ELSE IF TreeStatOn[fs][v.path].err # ""
            THEN Finish(Outcome(TreeStatOn[fs][v.path].err, "failed to stat path", <<>>, fs))
            ELSE IF TreeStatOn[fs][v.path].kind # "dir"
            THEN Finish(Outcome("ENOTDIR", "path is not a directory", <<>>, fs))
            ELSE [proc EXCEPT !.pc = "walk",
                              !.stack = <<Frame(v.path, "stat", <<>>, <<>>)>>]
    /\ Steady

\* buildTree: os.Stat, the exclusions and the kind of the entry
TreeStat ==
    /\ Walking("stat")
    /\ proc' =
        IF TooLong(Top.path) THEN ReturnErr("ENAMETOOLONG")
        ELSE IF TreeStatOn[fs][Top.path].err # ""
        THEN ReturnErr(TreeStatOn[fs][Top.path].err)
        ELSE IF matchesAny(proc.excl, Base(Top.path)) THEN ReturnEntry(BuiltNil)
        ELSE IF TreeStatOn[fs][Top.path].kind = "dir"
        THEN [proc EXCEPT !.stack[Len(proc.stack)].pc = "readdir"]
        ELSE ReturnEntry(Built(TreeEntry(Base(Top.path), "file", <<>>)))
    /\ Steady

\* buildTree: os.ReadDir and the sort
TreeReadDir ==
    /\ Walking("readdir")
    /\ proc' = [proc EXCEPT !.stack[Len(proc.stack)].pc = "loop",
                            !.stack[Len(proc.stack)].names = TreeReadDirOn[fs][Top.path]]
    /\ Steady

\* filepath.Join(path, e.Name())
childPath(path, name) == Join(path, name)

\* buildTree: the recursive call for the next entry
TreeDescend ==
    /\ Walking("loop") /\ Top.names # <<>>
    /\ Len(proc.stack) < MaxStack
    /\ proc' = [proc EXCEPT
            !.stack = Append([proc.stack EXCEPT ![Len(proc.stack)].names = Tail(@)],
                             Frame(childPath(Top.path, Head(Top.names)), "stat",
                                   <<>>, <<>>))]
    /\ Steady

\* buildTree: return entry, nil of a directory
TreeReturn ==
    /\ Walking("loop") /\ Top.names = <<>>
    /\ proc' = ReturnEntry(Built(TreeEntry(Base(Top.path), "directory", Top.children)))
    /\ Steady

\* HandleDirectoryTree: the result
TreeRespond ==
    /\ proc.pc = "respond"
    /\ last' = Call("directory_tree", proc.path, FALSE, proc.excl, "none", fs, proc.out)
    /\ proc' = [proc EXCEPT !.pc = "done"]
    /\ UNCHANGED <<fs, dirs, cPath, cRoots, cRes>>

NextTree ==
    \/ TreeStart
    \/ TreeStat
    \/ TreeReadDir
    \/ TreeDescend
    \/ TreeReturn
    \/ TreeRespond

SpecTree == InitTree /\ [][NextTree]_vars

\* the goroutine serving the request keeps running
SpecTreeLive == SpecTree /\ WF_vars(NextTree)

(***************************************************************************)
(* internal/tools: write_file step by step, beside an actor that replaces  *)
(* directories by symbolic links                                           *)
(***************************************************************************)
\* how many replacements the other actor makes during a request
MaxSwaps == 1

\* the path arguments of the requests, and where the other actor's links lead:
\* to a directory outside the allowed root or to one inside it
WritePaths ==
    {BL, BAL, BAAL, Child(BL, <<"l">>), Child(Child(BL, <<"l">>), <<"l">>)}
SwapTargets == {BX, BAA}

\* proc.pc: the step the request is at; resolved: resolvedPath; current and
\* parts: the loop of safeMkdirAll; tmpAt: the file the open descriptor refers
\* to; made: the entries the request has created or replaced; swaps: the
\* replacements so far
InitSwap ==
    /\ fs = BaseFs
    /\ dirs = ValidDirs(BaseFs, <<B>>)
    /\ last = NoCall
    /\ cPath = <<>>
    /\ cRoots = <<>>
    /\ cRes = "unset"
    /\ \E p \in WritePaths :
        proc = [pc |-> "validate", path |-> p, resolved |-> <<>>, current |-> <<>>,
                parts |-> <<>>, tmpAt |-> <<>>, made |-> {}, swaps |-> 0,
                out |-> Outcome("", "", <<>>, BaseFs)]

\* the handler returns
Returns(e, stage) ==
    [proc EXCEPT !.pc = "respond", !.out = Outcome(e, stage, proc.resolved, fs)]

\* Another process replaces a directory beneath the allowed root by a
\* symbolic link
Swap ==
    /\ proc.pc \notin {"respond", "done"}
    /\ proc.swaps < MaxSwaps
    /\ \E p \in {q \in DOMAIN fs : fs[q].kind = "dir" /\ HasPrefix(q, B \o <<Sep>>)},
          t \in SwapTargets :
        /\ t # p /\ ~HasPrefix(t, p \o <<Sep>>)
        /\ fs' = Put(RemoveAll(fs, p).fs, p, LinkNode(t))
    /\ proc' = [proc EXCEPT !.swaps = @ + 1]
    /\ UNCHANGED <<dirs, last, cPath, cRoots, cRes>>

\* HandleWriteFile: reg.ValidateForCreation(path)
WriteValidate ==
    /\ proc.pc = "validate"
    /\ LET Validated(v) ==
            proc' = IF v.err # ""
                    THEN [proc EXCEPT !.pc = "respond",
                            !.out = Outcome(v.err, "path validation failed", <<>>, fs)]
                    ELSE [proc EXCEPT !.pc = "vet", !.resolved = v.path]
       IN  Validated(ValidatePathForCreation(fs, proc.path, dirs))
    /\ Steady

\* safeMkdirAll up to its loop: the two validations and the choice of the root
WriteMkdirVet ==
    /\ proc.pc = "vet"
    /\ LET From(allowedRoot, normalized) ==
            IF allowedRoot = <<>>
            THEN Returns(ErrPathOutsideAllowed, "failed to create directories")
            ELSE IF Rel(allowedRoot, normalized) = Dot
            THEN [proc EXCEPT !.pc = "final"]
            ELSE [proc EXCEPT !.pc = "segment", !.current = allowedRoot,
                              !.parts = Split(Rel(allowedRoot, normalized))]
           Vetted(v, noLinks, normalized) ==
            proc' = IF v.err # "" THEN Returns(v.err, "failed to create directories")
                    ELSE IF noLinks # ""
                    THEN Returns(noLinks, "failed to create directories")
                    ELSE From(LongestRoot(normalized, dirs, 1, <<>>), normalized)
           Normalized(normalized) ==
            Vetted(ValidatePathForCreation(fs, normalized, dirs),
                   ValidateNoSymlinksInPath(fs, normalized, dirs), normalized)
       IN  Normalized(NormalizePath(Dir(proc.path)))
    /\ Steady

\* the loop of safeMkdirAll is over, or goes on with the next part
NextPart(pr) ==
    IF Tail(pr.parts) = <<>> THEN [pr EXCEPT !.pc = "final", !.parts = <<>>]
    ELSE [pr EXCEPT !.pc = "segment", !.parts = Tail(@)]

\* safeMkdirAll: os.Lstat of the next component and, when it is missing,
\* ValidatePathForCreation of it
WriteMkdirSegment ==
    /\ proc.pc = "segment"
    /\ LET Missing(v, cur) ==
            IF v.err # "" THEN Returns(v.err, "failed to create directories")
            ELSE [proc EXCEPT !.pc = "mkdir", !.current = cur]
           Segment(info, cur) ==
            proc' = IF Head(proc.parts) = <<>> THEN NextPart(proc)
                    ELSE IF info.err = "" THEN
                        IF info.kind = "link"
                        THEN Returns(ErrSymlinkOperationDenied,
                                     "failed to create directories")
                        ELSE IF info.kind # "dir"
                        THEN Returns("path segment is not a directory",
                                     "failed to create directories")
                        ELSE NextPart([proc EXCEPT !.current = cur])
                    ELSE IF ~IsNotExist(info.err)
                    THEN Returns(info.err, "failed to create directories")
                    ELSE Missing(ValidatePathForCreation(fs, cur, dirs), cur)
           OnPart(cur) == Segment(Lstat(fs, cur), cur)
       IN  OnPart(Join(proc.current, Head(proc.parts)))
    /\ Steady

\* safeMkdirAll: os.Mkdir(current, perm)
WriteMkdir ==
    /\ proc.pc = "mkdir"
    /\ LET Made(made, e) ==
            /\ fs' = made.fs
            /\ proc' = IF made.err # ""
                       THEN [proc EXCEPT !.pc = "respond",
                                !.out = Outcome(made.err, "failed to create directories",
                                                proc.resolved, made.fs)]
                       ELSE NextPart([proc EXCEPT !.made = @ \cup {e.path}])
       IN  Made(Mkdir(fs, proc.current), EntryOf(fs, proc.current))
    /\ UNCHANGED <<dirs, last, cPath, cRoots, cRes>>

\* atomicWriteFile: security.ValidateFinalPathForCreation(path, allowedDirs)
WriteFinalValidate ==
    /\ proc.pc = "final"
    /\ LET Validated(v) ==
            proc' = IF v.err # "" THEN Returns(v.err, "failed to write file")
                    ELSE [proc EXCEPT !.pc = "open"]
       IN  Validated(ValidateFinalPathForCreation(fs, proc.resolved, dirs))
    /\ Steady

\* the temp file's name
tmpName == Join(Dir(proc.resolved), TmpBase)

\* atomicWriteFile: os.OpenFile(tmpName, O_WRONLY|O_CREATE|O_EXCL, perm)
WriteOpen ==
    /\ proc.pc = "open"
    /\ LET Opened(opened, e) ==
            /\ fs' = opened.fs
            /\ proc' = IF opened.err # ""
                       THEN [proc EXCEPT !.pc = "respond",
                                !.out = Outcome(opened.err, "failed to write file",
                                                proc.resolved, opened.fs)]
                       ELSE [proc EXCEPT !.pc = "write", !.tmpAt = e.path,
                                         !.made = @ \cup {e.path}]
       IN  Opened(OpenExcl(fs, tmpName, Perm0644), EntryOf(fs, tmpName))
    /\ UNCHANGED <<dirs, last, cPath, cRoots, cRes>>

\* atomicWriteFile: f.Write, f.Sync, f.Close on the open file, wherever its
\* name now leads
WriteContent ==
    /\ proc.pc = "write"
    /\ fs' = IF proc.tmpAt \in DOMAIN fs /\ fs[proc.tmpAt].kind = "file"
             THEN Put(fs, proc.tmpAt, [fs[proc.tmpAt] EXCEPT !.data = Content])
             ELSE fs
    /\ proc' = [proc EXCEPT !.pc = "rename"]
    /\ UNCHANGED <<dirs, last, cPath, cRoots, cRes>>

\* atomicWriteFile: os.Rename(tmpName, path), and the deferred os.Remove
\* when it fails
WriteRename ==
    /\ proc.pc = "rename"
    /\ LET Renamed(renamed, e) ==
            IF renamed.err # ""
            THEN /\ fs' = Deferred(fs, tmpName)
                 /\ proc' = [proc EXCEPT !.pc = "respond",
                                !.out = Outcome(renamed.err, "failed to write file",
                                                proc.resolved, Deferred(fs, tmpName))]
            ELSE /\ fs' = renamed.fs
                 /\ proc' = [proc EXCEPT !.pc = "respond", !.made = @ \cup {e.path},
                                !.out = Outcome("", "ok", proc.resolved, renamed.fs)]
       IN  Renamed(Rename(fs, tmpName, proc.resolved), EntryOf(fs, proc.resolved))
    /\ UNCHANGED <<dirs, last, cPath, cRoots, cRes>>

\* HandleWriteFile: the result
WriteRespond ==
    /\ proc.pc = "respond"
    /\ last' = Call("write_file", proc.path, FALSE, <<>>, "none", BaseFs,
                    [proc.out EXCEPT !.fs = fs])
    /\ proc' = [proc EXCEPT !.pc = "done"]
    /\ UNCHANGED <<fs, dirs, cPath, cRoots, cRes>>

NextSwap ==
    \/ Swap
    \/ WriteValidate
    \/ WriteMkdirVet
    \/ WriteMkdirSegment
    \/ WriteMkdir
    \/ WriteFinalValidate
    \/ WriteOpen
    \/ WriteContent
    \/ WriteRename
    \/ WriteRespond

SpecSwap == InitSwap /\ [][NextSwap]_vars

(***************************************************************************)
(* Properties                                                              *)
(***************************************************************************)
ValidatorOps ==
    {"ValidatePath", "ValidatePathForCreation", "ValidateFinalPath",
     "ValidateFinalPathForCreation"}

\* c is the directory r or begins with r followed by a separator
BeginsWithDir(c, r) ==
    \/ c = r
    \/ /\ Len(c) > Len(r)
       /\ \A i \in 1..Len(r) : c[i] = r[i]
       /\ c[Len(r) + 1] = Sep

\* the last element of path p names a symbolic link in filesystem f
FinalIsLink(f, p) == Lstat(f, NormalizePath(p)).kind = "link"

\* C1: a path returned by any of the four validators is a resolved allowed
\* directory or begins with one followed by a separator; with no allowed
\* directory no validator returns a path.
C1_ReturnedPathInRoots ==
    (last.op \in ValidatorOps /\ last.err = "")
        => \E i \in 1..Len(dirs) :
                BeginsWithDir(last.res, resolveAllowedDirs(last.before, dirs)[i])

\* a validator accepted a path it had to resolve through the symlinked
\* allowed directory /l
C1_Witness ==
    /\ last.op = "ValidatePath"
    /\ last.err = ""
    /\ dirs = <<L>>
    /\ last.res # NormalizePath(last.path)

\* C2: the path ValidateFinalPath or ValidateFinalPathForCreation returns does
\* not name a symbolic link in the filesystem the call saw: its last element
\* is absent or is a file or directory.
C2_ReturnedFinalNotLink ==
    (last.op \in {"ValidateFinalPath", "ValidateFinalPathForCreation"}
        /\ last.err = "")
        => KindAt(last.before, last.res) # "link"

\* ValidateFinalPathForCreation accepted a path that does not exist, in a
\* filesystem that holds a symlink with no target
C2_Witness ==
    /\ last.op = "ValidateFinalPathForCreation"
    /\ last.err = ""
    /\ last.res \notin DOMAIN last.before
    /\ \E p \in DOMAIN last.before :
            /\ last.before[p].kind = "link"
            /\ EvalSymlinks(last.before, p).err # ""

\* C3: on a path whose last element is a symbolic link ValidateFinalPath
\* fails with ErrSymlinkOperationDenied wherever the link points, and
\* edit_file on such a path returns an error and changes nothing.
C3_FinalSymlinkDenied ==
    /\ (last.op = "ValidateFinalPath" /\ FinalIsLink(last.before, last.path))
            => last.err = ErrSymlinkOperationDenied
    /\ (last.op = "edit_file" /\ FinalIsLink(last.before, last.path))
            => /\ last.err = ErrSymlinkOperationDenied
               /\ last.stage = "path validation failed"
               /\ fs = last.before

\* edit_file was asked to edit /b/l, a symlink to the file /b/a/l inside the
\* allowed directory
C3_Witness ==
    /\ last.op = "edit_file"
    /\ last.path = BL
    /\ dirs = <<B>>
    /\ KindAt(last.before, BL) = "link"
    /\ last.before[BL].target = BAL
    /\ KindAt(last.before, BAL) = "file"
    /\ last.err = ErrSymlinkOperationDenied
    /\ fs[BAL] = last.before[BAL]

\* Where path n leads: symlinks are followed as far as entries exist and the
\* elements that do not exist are reattached to the place reached
RECURSIVE Locate(_, _, _, _)
Locate(f, cur, rem, fuel) ==
    IF rem = <<>> THEN cur
    ELSE IF KindAt(f, cur) # "dir" \/ Child(cur, Head(rem)) \notin DOMAIN f
    THEN Child(cur, JoinParts(rem))
    ELSE IF f[Child(cur, Head(rem))].kind = "link" /\ fuel > 0
    THEN Locate(f, Root, Elems(f[Child(cur, Head(rem))].target) \o Tail(rem), fuel - 1)
    ELSE Locate(f, Child(cur, Head(rem)), Tail(rem), fuel)

TrueLocation(f, n) == Locate(f, Root, Elems(n), LinkLimit)

\* the ends of the elements of path n that lie below its leading directory r
ElementEnds(n, r) == {k \in (Len(r) + 1)..Len(n) : k = Len(n) \/ n[k + 1] = Sep}

\* an element of path n below the directory r, the last included, is a
\* symbolic link in filesystem f
LinkBelow(f, r, n) == \E k \in ElementEnds(n, r) : Lstat(f, SubSeq(n, 1, k)).kind = "link"

\* path p lies in an allowed directory and has a symbolic link below it
LinkBelowRoot(f, p) ==
    \E i \in 1..Len(dirs) :
        /\ BeginsWithDir(NormalizePath(p), dirs[i])
        /\ LinkBelow(f, dirs[i], NormalizePath(p))

\* C4: the path ValidatePath returns is where the input leads (every symlink
\* of an existing path followed; for a missing path the nearest existing
\* ancestor, at any distance, followed and the rest reattached), so none of
\* its elements is a symbolic link, and an input that leads outside every
\* allowed directory is rejected.
C4_CanonicalIsTrueLocation ==
    (last.op = "ValidatePath" /\ last.path # <<>> /\ ~ContainsRune(last.path, NUL))
        => /\ last.err = ""
                => /\ last.res = TrueLocation(last.before, NormalizePath(last.path))
                   /\ ~LinkBelow(last.before, Root, last.res)
           /\ (\A i \in 1..Len(dirs) :
                    ~BeginsWithDir(TrueLocation(last.before, NormalizePath(last.path)),
                                   resolveAllowedDirs(last.before, dirs)[i]))
                => last.err # ""

\* C4 (the case found): with /b allowed and /b/l a link out of it, the missing
\* path /b/l/l/a is handed back as it was given
C4_FailingInput ==
    /\ last.op = "ValidatePath" /\ dirs = <<B>> /\ last.path = BL \o <<Sep, "l", Sep, "a">>
    /\ KindAt(last.before, BL) = "link" /\ last.before[BL].target = BX
    /\ last.err = "" /\ last.res = last.path

\* C5: IsPathWithinAllowedDirectories(p, R) is true exactly when some r of R,
\* both cleaned, equals p or is a prefix of p followed at once by a separator;
\* so a bare string prefix does not match and an empty R admits no path.
C5_ContainmentIsSeparatorPrefix ==
    cRes # "unset"
        => /\ cRes = "true"
                <=> \E i \in 1..Len(cRoots) : BeginsWithDir(Clean(cPath), Clean(cRoots[i]))
           /\ cRoots = <<>> => cRes = "false"

C5_Witness ==
    /\ cRes = "false" /\ cRoots # <<>>
    /\ \E i \in 1..Len(cRoots) :
            /\ Clean(cRoots[i]) # Root
            /\ Clean(cPath) # Clean(cRoots[i])
            /\ HasPrefix(Clean(cPath), Clean(cRoots[i]))

\* C6: write_file fails and changes nothing when the destination is a symbolic
\* link or an existing element between the allowed directory and the
\* destination's parent is one, wherever the link points: the link's target
\* keeps its content and no file or directory is created.
C6_WriteFileRejectsSymlinks ==
    (last.op = "write_file" /\ LinkBelowRoot(last.before, last.path))
        => last.err # "" /\ fs = last.before

C6_Witness ==
    /\ last.op = "write_file" /\ dirs = <<B>> /\ last.path = BL \o <<Sep, "l", Sep, "a">>
    /\ KindAt(last.before, BL) = "link" /\ last.before[BL].target = BA
    /\ last.err = ErrSymlinkOperationDenied /\ last.stage = "failed to create directories"
    /\ fs = last.before

\* C7: create_directory fails when an existing element of the requested path
\* below the allowed directory is a symbolic link, also when the link points
\* into an allowed directory, and then creates no directory anywhere.
C7_CreateDirectoryRejectsSymlinks ==
    (last.op = "create_directory" /\ LinkBelowRoot(last.before, last.path))
        => last.err # "" /\ fs = last.before

\* C7 (the case found): with /b allowed and /b/l a link to /b/a, the request
\* for /b/l/l succeeds and makes the directory /b/a/l
C7_FailingInput ==
    /\ last.op = "create_directory" /\ dirs = <<B>> /\ last.path = BL \o <<Sep, "l">>
    /\ KindAt(last.before, BL) = "link" /\ last.before[BL].target = BA
    /\ last.err = "" /\ BAL \notin DOMAIN last.before /\ KindAt(fs, BAL) = "dir"

\* the temp file of a call that wrote to path dest
TmpOf(dest) == Join(Dir(dest), TmpBase)

\* the entry at path p is the same in filesystems f and g
SameEntry(f, g, p) ==
    IF p \in DOMAIN f THEN p \in DOMAIN g /\ g[p] = f[p] ELSE p \notin DOMAIN g

\* the call reached atomicWriteFile
AtomicWriteReached ==
    /\ last.op \in {"write_file", "edit_file"}
    /\ last.stage \in {"ok", "failed to write file"}

\* the contents and the mode the handler hands to atomicWriteFile
NewContents ==
    IF last.op = "write_file" THEN Content
    ELSE ApplyEdits(last.before[last.res].data, last.edits).content

CallerPerm ==
    IF last.op = "write_file" THEN Perm0644 ELSE last.before[last.res].perm

DeleteTarget == EvalSymlinks(last.before, NormalizePath(last.path))

\* C9: delete_directory never removes an allowed directory: a request whose
\* resolved target is a resolved allowed directory fails whether recursive or
\* not, a recursive request whose target contains an allowed directory fails,
\* and in each case nothing is deleted.
C9_RootsNeverDeleted ==
    last.op = "delete_directory"
        => \A i \in 1..Len(dirs) :
            LET Guarded(root) ==
                    /\ root \in DOMAIN last.before => root \in DOMAIN fs
                    /\ (DeleteTarget.err = "" /\ DeleteTarget.path = root)
                            => last.err # "" /\ fs = last.before
                    /\ (last.flag /\ DeleteTarget.err = ""
                                  /\ BeginsWithDir(root, DeleteTarget.path))
                            => last.err # "" /\ fs = last.before
            IN  Guarded(resolveAllowedDirs(last.before, dirs)[i])

C9_Witness ==
    /\ last.op = "delete_directory" /\ last.flag /\ dirs = <<B, BAA>> /\ last.path = BA
    /\ \A p \in DOMAIN last.before : HasPrefix(p, BA) => last.before[p].kind # "link"
    /\ last.stage = "cannot recursively delete a directory containing an allowed directory"
    /\ fs = last.before

\* C10: a recursive delete_directory fails and deletes nothing when an entry
\* at any depth beneath the target directory is a symbolic link; the target,
\* what it holds and what the links point to stay as they were.
C10_RecursiveDeleteRejectsSymlinks ==
    (/\ last.op = "delete_directory" /\ last.flag
     /\ DeleteTarget.err = ""
     /\ KindAt(last.before, DeleteTarget.path) = "dir"
     /\ \E p \in DOMAIN last.before :
            /\ HasPrefix(p, DeleteTarget.path \o <<Sep>>)
            /\ last.before[p].kind = "link")
        => last.err # "" /\ fs = last.before

C10_Witness ==
    /\ last.op = "delete_directory" /\ last.flag /\ dirs = <<B>> /\ last.path = BA
    /\ KindAt(last.before, BAAL) = "link" /\ KindAt(last.before, BAL) = "none"
    /\ last.stage = "failed to validate directory contents" /\ fs = last.before

\* path p names an existing entry that is neither a directory nor a symbolic
\* link and lies in an allowed directory
DeletableFile(f, p) ==
    /\ p # <<>> /\ ~ContainsRune(p, NUL)
    /\ Lstat(f, NormalizePath(p)).kind = "file"
    /\ \E i \in 1..Len(dirs) :
            BeginsWithDir(EvalSymlinks(f, NormalizePath(p)).path,
                          resolveAllowedDirs(f, dirs)[i])

\* C11: delete_file removes an entry only when the path is an existing entry,
\* neither directory nor symbolic link, inside an allowed directory, and then
\* removes that entry alone; for a directory, a symbolic link, a missing path
\* or a path outside the allowed directories it returns an error and removes
\* nothing, so the target of a link is never removed.
C11_DeleteFileOnlyPlainFiles ==
    last.op = "delete_file"
        => IF DeletableFile(last.before, last.path)
           THEN last.err = ""
                /\ fs = Drop(last.before, EvalSymlinks(last.before, NormalizePath(last.path)).path)
           ELSE last.err # "" /\ fs = last.before

C11_Witness ==
    /\ last.op = "delete_file" /\ dirs = <<B>> /\ last.path = BL
    /\ KindAt(last.before, BL) = "link" /\ last.before[BL].target = BAL
    /\ KindAt(last.before, BAL) = "file"
    /\ last.err = ErrSymlinkOperationDenied /\ fs = last.before

C13_MoveRejectsSymlinkDestination ==
    (last.op = "move_file" /\ FinalIsLink(last.before, last.path))
        => last.err # "" /\ fs = last.before

\* C13 (the case found): /b/l is a file and /b/a/a/l a link to the missing
\* /b/a/l; moving /b/l to /b/a/a/l succeeds and puts the file in the link's
\* place
C13_FailingInput ==
    /\ last.op = "move_file" /\ dirs = <<B>> /\ last.source = BL /\ last.path = BAAL
    /\ KindAt(last.before, BL) = "file" /\ BAL \notin DOMAIN last.before
    /\ KindAt(last.before, BAAL) = "link" /\ last.before[BAAL].target = BAL
    /\ last.err = "" /\ KindAt(fs, BAAL) = "file" /\ BL \notin DOMAIN fs

\* C14: copy_file with overwrite absent or false fails whenever the
\* destination already exists and leaves it, and all else, unchanged; an
\* existing destination is replaced only when overwrite is true, and then by
\* the content and mode of the source.
C14_CopyOverwriteOnlyOnRequest ==
    (last.op = "copy_file" /\ Lstat(last.before, NormalizePath(last.path)).err = "")
        => /\ ~last.flag => last.err # "" /\ fs = last.before
           /\ fs # last.before
                => /\ last.flag /\ last.err = ""
                   /\ fs = Put(last.before, last.res,
                               last.before[EvalSymlinks(last.before,
                                                NormalizePath(last.source)).path])

C14_Witness ==
    /\ last.op = "copy_file" /\ ~last.flag /\ dirs = <<B>>
    /\ last.source = BL /\ last.path = BAL
    /\ KindAt(last.before, BL) = "file" /\ KindAt(last.before, BAL) = "file"
    /\ last.before[BL].perm # last.before[BAL].perm
    /\ last.stage = "destination already exists" /\ fs = last.before

\* the directory a search_files or directory_tree request starts from
WalkRoot == EvalSymlinks(last.before, NormalizePath(last.path)).path

\* C15: search_files returns no path that is itself a symbolic link and none
\* that lies beneath a symlinked directory, whatever the pattern and the tree
\* under the directory searched.
C15_SearchReturnsNoSymlinks ==
    (last.op = "search_files" /\ last.err = "")
        => \A i \in 1..Len(last.res) : ~LinkBelow(last.before, WalkRoot, last.res[i])

\* C15 (the case found): /b/l is a symlink to the file /bx/a; the search of /b
\* for * lists /b/l
C15_FailingInput ==
    /\ last.op = "search_files" /\ dirs = <<B>> /\ last.path = B /\ last.source = <<"*">>
    /\ last.edits = <<>>
    /\ KindAt(last.before, BL) = "link" /\ last.before[BL].target = BXA
    /\ last.err = "" /\ \E i \in 1..Len(last.res) : last.res[i] = BL

\* a search lists entries beneath a real directory and descends into none
\* that is a link
C15_DescendsIntoNoLink ==
    (last.op = "search_files" /\ last.err = "")
        => \A i \in 1..Len(last.res) :
                ~LinkBelow(last.before, WalkRoot, Dir(last.res[i]))

\* the paths of the entries beneath the entry `tree` found at path `at`
RECURSIVE TreePaths(_, _)
TreePaths(tree, at) ==
    UNION { {Child(at, tree.Children[i].Name)}
                \cup TreePaths(tree.Children[i], Child(at, tree.Children[i].Name))
            : i \in 1..Len(tree.Children) }

\* C16: the directory_tree output has no entry for a symbolic link and none
\* reached through a symlinked directory; links beneath the requested
\* directory are skipped, not followed, so nothing outside the requested tree
\* appears in the result.
C16_TreeShowsNoSymlinks ==
    (last.op = "directory_tree" /\ last.err = "" /\ last.res # <<>>)
        => \A p \in TreePaths(last.res, WalkRoot) : ~LinkBelow(last.before, WalkRoot, p)

\* C16 (the case found): /b/l is a symlink to the directory /bx outside /b;
\* the tree of /b shows l as a directory holding the file a of /bx
C16_FailingInput ==
    /\ last.op = "directory_tree" /\ dirs = <<B>> /\ last.path = B /\ last.edits = <<>>
    /\ KindAt(last.before, BL) = "link" /\ last.before[BL].target = BX
    /\ last.err = ""
    /\ \E i \in 1..Len(last.res.Children) :
            last.res.Children[i] = TreeEntry(<<"l">>, "directory",
                                             <<TreeEntry(<<"a">>, "file", <<>>)>>)

(***************************************************************************)
(* edit_file: what a list of edits is to do to a buffer, stated on the     *)
(* bytes of the buffer                                                     *)
(***************************************************************************)
\* the offsets at which old occurs byte for byte in buf
ExactAt(buf, old) ==
    {i \in 0..(Len(buf) - Len(old)) : SubSeq(buf, i + 1, i + Len(old)) = old}
\* the k-th element, in ascending order, of a set of offsets
Kth(S, k) == CHOOSE x \in S : Cardinality({y \in S : y < x}) = k - 1
\* buf with the n bytes at offset i replaced by new
Splice(buf, i, n, new) == SubSeq(buf, 1, i) \o new \o SubSeq(buf, i + n + 1, Len(buf))
\* the requireUnique and occurrence an edit asks for, with their defaults
Wanted(e) == IF e.hasRequireUnique THEN e.RequireUnique ELSE TRUE
Which(e) == IF e.hasOccurrence THEN e.Occurrence ELSE 1
\* an edit that replaces an exact occurrence, and the buffer it leaves
EditApplies(buf, e) ==
    /\ e.OldText # <<>>
    /\ Which(e) >= 1
    /\ Which(e) <= Cardinality(ExactAt(buf, e.OldText))
    /\ Wanted(e) => Cardinality(ExactAt(buf, e.OldText)) = 1
EditResult(buf, e) ==
    Splice(buf, Kth(ExactAt(buf, e.OldText), Which(e)), Len(e.OldText), e.NewText)
\* the edits of a list applied in order, each to the buffer the ones before left
RECURSIVE EditAll(_, _)
EditAll(buf, edits) ==
    IF edits = <<>> THEN [ok |-> TRUE, content |-> buf]
    ELSE IF ~EditApplies(buf, Head(edits)) THEN [ok |-> FALSE, content |-> buf]
    ELSE EditAll(EditResult(buf, Head(edits)), Tail(edits))

\* the buffer an edit_file request read, and the file it leaves
EditRead == last.before[EditTarget].data
EditLeft == fs[EditTarget].data
\* the buffer the i-th edit of the request is matched against
BufferAt(i) == EditAll(EditRead, SubSeq(last.edits, 1, i - 1))

\* C17: an edit whose oldText occurs byte-exactly more than once in the
\* current buffer fails as ambiguous, leaving the file unchanged, when
\* requireUnique is absent or true; with requireUnique=false and occurrence=k,
\* 1 <= k <= number of exact matches, exactly the k-th occurrence in offset
\* order is replaced by newText and every other byte is unchanged. (The
\* failure is reported as the ambiguous match unless the edit also carries an
\* occurrence below 1, which is reported first.)
C17_AmbiguousOrKthOccurrence ==
    last.op = "edit_file" =>
        \A i \in 1..Len(last.edits) :
            LET Case(buf, e) ==
                    (buf.ok /\ e.OldText # <<>>
                            /\ Cardinality(ExactAt(buf.content, e.OldText)) > 1)
                    => /\ Wanted(e) =>
                            /\ last.err # ""
                            /\ Which(e) >= 1
                                  => last.err = "oldText matches multiple locations"
                            /\ fs = last.before
                       /\ (/\ ~Wanted(e) /\ e.hasOccurrence
                           /\ e.Occurrence \in 1..Cardinality(ExactAt(buf.content, e.OldText))
                           /\ i = Len(last.edits) /\ ~last.flag /\ last.fail = "none")
                          => /\ last.err = ""
                             /\ EditLeft =
                                  Splice(buf.content,
                                         Kth(ExactAt(buf.content, e.OldText), e.Occurrence),
                                         Len(e.OldText), e.NewText)
            IN  Case(BufferAt(i), last.edits[i])

\* the second of three occurrences of x, the last two overlapping occurrences
\* of xx, replaced
C17_Witness ==
    /\ last.op = "edit_file" /\ ~last.flag /\ last.fail = "none" /\ last.err = ""
    /\ EditRead = <<"x", "x", "x">>
    /\ last.edits = <<Edit(<<"x", "x">>, <<"y">>, TRUE, FALSE, TRUE, 2)>>
    /\ EditLeft = <<"x", "y">>

\* the lines at which a run of content lines equals the lines of old, each line
\* trimmed
LineRuns(buf, old) ==
    LET Runs(lines, oldLines) ==
            {i \in 1..(Len(lines) - Len(oldLines) + 1) :
                \A j \in 1..Len(oldLines) :
                    TrimSpace(lines[i + j - 1]) = TrimSpace(oldLines[j])}
    IN  Runs(SplitOn(buf, NL), SplitOn(old, NL))
\* buf with the run of content lines at line i replaced by the lines of new,
\* each prefixed with the leading whitespace of line i
RunReplaced(buf, old, new, i) ==
    LET Built1(lines, oldLines, newLines) ==
            JoinWith(SubSeq(lines, 1, i - 1)
                        \o [k \in 1..Len(newLines) |-> getIndent(lines[i]) \o newLines[k]]
                        \o SubSeq(lines, i + Len(oldLines), Len(lines)), NL)
    IN  Built1(SplitOn(buf, NL), SplitOn(old, NL), SplitOn(new, NL))

\* C18: when an edit's oldText has no byte-exact occurrence in the buffer but
\* its whitespace-normalized form (each line trimmed) matches exactly one run
\* of content lines, edit_file succeeds and replaces that run with newText,
\* each replacement line prefixed with the leading whitespace of the first
\* matched content line.
C18_NormalizedMatchReplaces ==
    (/\ last.op = "edit_file" /\ Len(last.edits) = 1 /\ ~last.flag /\ last.fail = "none"
     /\ last.edits[1].OldText # <<>> /\ Which(last.edits[1]) = 1
     /\ ExactAt(EditRead, last.edits[1].OldText) = {}
     /\ Cardinality(LineRuns(EditRead, last.edits[1].OldText)) = 1)
        => /\ last.err = ""
           /\ EditLeft = RunReplaced(EditRead, last.edits[1].OldText, last.edits[1].NewText,
                                     CHOOSE i \in LineRuns(EditRead, last.edits[1].OldText) : TRUE)

\* C18 (the case found): the file holds " x"; the edit of "x " to "y" has no
\* exact occurrence and one normalized match, and the call fails
C18_FailingInput ==
    /\ last.op = "edit_file" /\ ~last.flag /\ last.fail = "none"
    /\ EditRead = <<" ", "x">>
    /\ last.edits = <<Edit(<<"x", " ">>, <<"y">>, FALSE, TRUE, FALSE, 1)>>
    /\ last.err = "occurrence out of range"
    /\ fs = last.before

\* C18: no edit_file call succeeds on an edit without a byte-exact occurrence
C18_FallbackNeverApplies ==
    (last.op = "edit_file" /\ last.err = "") => EditAll(EditRead, last.edits).ok

\* C19: after an edit_file call without dryRun the file holds either the
\* result of applying every edit of the list in order, each matched against
\* the buffer the edits before it produced, or the original content; when any
\* edit of the list fails (empty oldText, no match, ambiguous match,
\* occurrence out of range) the call returns an error and nothing of the
\* earlier edits is persisted.
C19_EditListAllOrNothing ==
    (last.op = "edit_file" /\ ~last.flag) =>
        /\ ~EditAll(EditRead, last.edits).ok => last.err # ""
        /\ IF last.err = ""
           THEN EditLeft = EditAll(EditRead, last.edits).content
           ELSE fs = last.before

\* the first edit of a list applies and the second finds nothing: the call
\* fails and the file is as it was
C19_Witness ==
    /\ last.op = "edit_file" /\ ~last.flag
    /\ EditRead = <<"x">>
    /\ last.edits = <<Edit(<<"x">>, <<"y">>, TRUE, FALSE, FALSE, 1),
                      Edit(<<"x">>, <<"y">>, FALSE, TRUE, FALSE, 1)>>
    /\ EditApplies(EditRead, last.edits[1])
    /\ last.err = "oldText not found in file"
    /\ fs = last.before

\* both edits of a list persisted, the second matched in what the first left
C19_BothApplied ==
    /\ last.op = "edit_file" /\ ~last.flag /\ last.err = ""
    /\ EditRead = <<"x">>
    /\ last.edits = <<Edit(<<"x">>, <<"y">>, TRUE, FALSE, FALSE, 1),
                      Edit(<<"y">>, <<"x", "x">>, FALSE, TRUE, FALSE, 1)>>
    /\ EditLeft = <<"x", "x">>

\* the lines of a content: its pieces between newlines, a final newline
\* starting no further line
LinesOf(content) ==
    LET Pieces(parts) ==
            IF content # <<>> /\ content[Len(content)] = NL
            THEN SubSeq(parts, 1, Len(parts) - 1) ELSE parts
    IN  Pieces(SplitOn(content, NL))
\* the last min(n, L) of the L lines, joined by newlines
LastLines(content, n) ==
    LET Taken(ls) ==
            JoinWith(IF Len(ls) > n THEN SubSeq(ls, Len(ls) - n + 1, Len(ls)) ELSE ls, NL)
    IN  Taken(LinesOf(content))

\* C20: for every content and every n >= 1, TailFile returns exactly the last
\* min(n, L) lines of the content, the L lines being the pieces between
\* newlines (a final newline starts no further line), joined by newlines with
\* no trailing newline; empty lines, lines longer than a chunk and contents
\* without a final newline included.
C20_TailReturnsLastLines ==
    (last.op = "tail" /\ last.n >= 1)
        => /\ last.err = ""
           /\ last.res = LastLines(last.before[EditTarget].data, last.n)

\* C20 (the case found): the content is x, an empty line, x; its last three
\* lines come back as two
C20_FailingInput ==
    /\ last.op = "tail" /\ last.n = 3
    /\ last.before[EditTarget].data = <<"x", NL, NL, "x">>
    /\ last.res = <<"x", NL, "x">>

\* C20: on contents without an empty line TailFile returns the last lines
C20_HoldsWithoutEmptyLines ==
    (/\ last.op = "tail" /\ last.n >= 1
     /\ \A i \in 1..Len(LinesOf(last.before[EditTarget].data)) :
            LinesOf(last.before[EditTarget].data)[i] # <<>>)
        => /\ last.err = ""
           /\ last.res = LastLines(last.before[EditTarget].data, last.n)


\* the result of the request served with the occurrence of its edit left out
WithoutOccurrence ==
    HandleEditFile(last.before, dirs, last.path,
                   <<[last.edits[1] EXCEPT !.hasOccurrence = FALSE]>>, last.flag, last.fail)

\* C26: when requireUnique is true or absent, the occurrence field of an edit
\* has no effect on the outcome: for every buffer, oldText, newText and
\* occurrence value the edit succeeds or fails, and leaves the same buffer,
\* exactly as it does with occurrence absent.
C26_OccurrenceIgnoredWhenUnique ==
    (/\ last.op = "edit_file" /\ Len(last.edits) = 1
     /\ Wanted(last.edits[1]) /\ last.edits[1].hasOccurrence)
        => /\ (last.err = "") <=> (WithoutOccurrence.err = "")
           /\ fs = WithoutOccurrence.fs

\* C26 (the case found): the file holds x once; the edit of x to y with
\* occurrence 2 and no requireUnique fails, and with no occurrence it succeeds
C26_FailingInput ==
    /\ last.op = "edit_file" /\ ~last.flag /\ last.fail = "none"
    /\ EditRead = <<"x">>
    /\ last.edits = <<Edit(<<"x">>, <<"y">>, FALSE, TRUE, TRUE, 2)>>
    /\ last.err = "occurrence out of range"
    /\ fs = last.before
    /\ WithoutOccurrence.err = ""
    /\ WithoutOccurrence.fs[EditTarget].data = <<"y">>

\* C26: an occurrence of 1 changes nothing when requireUnique is true or absent
C26_OccurrenceOneIgnored ==
    (/\ last.op = "edit_file" /\ Len(last.edits) = 1
     /\ Wanted(last.edits[1]) /\ last.edits[1].hasOccurrence
     /\ last.edits[1].Occurrence = 1)
        => /\ last.err = WithoutOccurrence.err
           /\ fs = WithoutOccurrence.fs

(***************************************************************************)
(* read_multiple_files                                                     *)
(***************************************************************************)
\* the entry that reading path p alone gives on the filesystem f
EntryOn(f, p) ==
    LET Entry(content, e) == [Path |-> p, Content |-> content, Error |-> e]
        Statted(info) ==
            IF info.err # "" THEN Entry(<<>>, info.err)
            ELSE IF info.kind = "dir" THEN Entry(<<>>, "path is a directory")
            ELSE Entry(f[info.at].data, "")
        Validated(v) ==
            IF v.err # "" THEN Entry(<<>>, v.err) ELSE Statted(Stat(f, v.path))
    IN  Validated(ValidatePath(f, p, dirs))
\* the entries that reading p alone can give while the file is being removed
EntriesFor(p) ==
    {EntryOn(ReadFs, p), EntryOn(Drop(ReadFs, BL), p)}
        \cup IF EntryOn(ReadFs, p) = EntryOn(Drop(ReadFs, BL), p) THEN {}
             ELSE {[Path |-> p, Content |-> <<>>, Error |-> "ENOENT"]}
\* the goroutines holding a permit: past the send on sem, before the receive
Holders ==
    IF proc = <<>> THEN {}
    ELSE {idx \in 1..Len(proc.paths) :
            proc.pc[idx] \in {"validate", "stat", "read", "release"}}

\* C21: read_multiple_files returns exactly one result entry per input path,
\* in input order, whatever order the workers finish in; a validation or read
\* failure of one path is reported in that path's own entry, prevents no other
\* path from being read and does not make the call an error.
C21_OneEntryPerPathInOrder ==
    (last.op = "read_multiple_files" /\ last.edits # <<>>)
        => /\ last.err = ""
           /\ Len(last.res) = Len(last.edits)
           /\ \A k \in 1..Len(last.edits) :
                /\ last.res[k].Path = last.edits[k]
                /\ last.res[k] \in EntriesFor(last.edits[k])

\* three paths fail (outside the roots, a directory, missing) and the fourth
\* is read: four entries in input order
C21_Witness ==
    /\ last.op = "read_multiple_files" /\ last.err = ""
    /\ last.edits = <<BXA, BA, BAL, BL>>
    /\ last.res[1].Error = ErrPathOutsideAllowed
    /\ last.res[2].Error = "path is a directory"
    /\ last.res[3].Error # ""
    /\ last.res[4] = [Path |-> BL, Content |-> <<"x">>, Error |-> ""]

\* C25: during one read_multiple_files request no more than
\* maxConcurrentReads workers hold a semaphore permit at any time, that is,
\* are between the acquire and the release (validating, stat-ing or reading),
\* for any number of input paths.
C25_PermitsBounded ==
    /\ Cardinality(Holders) <= maxConcurrentReads
    /\ proc # <<>> => proc.sem = Cardinality(Holders)

\* every permit is held and a further worker waits for one
C25_Witness ==
    /\ Cardinality(Holders) = maxConcurrentReads
    /\ \E idx \in Workers : proc.pc[idx] = "acquire"

\* C29: every read_multiple_files request terminates for any finite list of
\* paths, lists longer than the number of permits included: every worker
\* acquires a permit in the end, releases it on every exit path, and the
\* handler returns once all workers have finished.
C29_ReadManyTerminates ==
    /\ <>(last.op = "read_multiple_files")
    /\ \A idx \in 1..4 : [](At(idx, "acquire") => <>At(idx, "done"))

\* a request for more paths than there are permits has returned, every worker
\* done and every permit back
C29_Witness ==
    /\ last.op = "read_multiple_files" /\ last.err = ""
    /\ Len(proc.paths) > maxConcurrentReads
    /\ \A idx \in Workers : proc.pc[idx] = "done"
    /\ proc.sem = 0

(***************************************************************************)
(* Registry                                                                *)
(***************************************************************************)
\* C22: a Get, Validate or ValidateForCreation call running beside Set
\* observes the complete root list from before a Set or the complete list
\* from after it, never a partly built or mixed list; and a list handed to a
\* caller or validator is not modified by a later Set.
C22_SnapshotsCompleteAndStable ==
    /\ proc.lists \subseteq {ValidDirs(fs, args) : args \in SetArgs}
    /\ \A r \in DOMAIN proc.rd :
        proc.rd[r].pc \in {"taken", "using", "returned"}
            => /\ proc.rd[r].seen \in proc.lists
               /\ Elements(proc.heap, proc.rd[r].dirs) = proc.rd[r].seen
               /\ proc.rd[r].pc = "returned" => proc.rd[r].used = proc.rd[r].seen

\* a validator still holds the list from before while a second Set since is
\* part way through building its own
C22_Witness ==
    /\ \E r \in DOMAIN proc.rd :
        /\ proc.rd[r].pc = "using" /\ proc.rd[r].op = "Validate"
        /\ proc.rd[r].seen = <<B>>
        /\ Elements(proc.heap, proc.rd[r].dirs) = <<B>>
    /\ proc.sets = 2 /\ proc.set.pc = "loop"
    /\ Elements(proc.heap, proc.set.validDirs) = <<BX>>
    /\ dirs # <<B>>


(***************************************************************************)
(* safeMkdirAll                                                            *)
(***************************************************************************)
\* the components safeMkdirAll walks for a directory: the lexical prefixes of
\* the normalized path below its longest allowed root, outermost first
RECURSIVE WalkedFrom(_, _)
WalkedFrom(current, parts) ==
    IF parts = <<>> THEN <<>>
    ELSE IF Head(parts) = <<>> THEN WalkedFrom(current, Tail(parts))
    ELSE <<Join(current, Head(parts))>>
            \o WalkedFrom(Join(current, Head(parts)), Tail(parts))

Walked(path, allowedDirs) ==
    LET From(allowedRoot, normalized) ==
            IF allowedRoot = <<>> \/ Rel(allowedRoot, normalized) = Dot THEN <<>>
            ELSE WalkedFrom(allowedRoot, Split(Rel(allowedRoot, normalized)))
        Normalized(normalized) ==
            From(LongestRoot(normalized, allowedDirs, 1, <<>>), normalized)
    IN  Normalized(NormalizePath(path))

\* the write_file request reached safeMkdirAll
MkdirAllRan == last.op = "write_file" /\ last.stage # "path validation failed"

\* the walked component at position k was created by the request
CreatedAt(w, k) ==
    /\ IsNotExist(Lstat(last.before, w[k]).err)
    /\ Lstat(fs, w[k]).err = ""

\* C23: safeMkdirAll creates a component only when every component walked
\* before it, below the longest matching allowed root, is a real directory,
\* so never beneath a symbolic link; and when a walked component is a
\* symbolic link it fails with ErrSymlinkOperationDenied and has created
\* nothing at or beyond that component.
C23_MkdirOnlyBelowRealDirectories ==
    MkdirAllRan =>
        LET w == Walked(Dir(last.path), dirs)
        IN  /\ \A k \in 1..Len(w) :
                CreatedAt(w, k)
                    => /\ Lstat(fs, w[k]).kind = "dir"
                       /\ \A j \in 1..(k - 1) :
                            /\ Lstat(last.before, w[j]).kind # "link"
                            /\ Lstat(fs, w[j]).kind = "dir"
            /\ \A k \in 1..Len(w) :
                Lstat(last.before, w[k]).kind = "link"
                    => /\ last.err = ErrSymlinkOperationDenied
                       /\ last.stage = "failed to create directories"
                       /\ \A j \in k..Len(w) : ~CreatedAt(w, j)
                       /\ fs = last.before

\* two missing directories were created one below the other under the root
C23_Witness ==
    /\ MkdirAllRan
    /\ last.err = ""
    /\ Len(Walked(Dir(last.path), dirs)) >= 2
    /\ \A k \in 1..2 : CreatedAt(Walked(Dir(last.path), dirs), k)

(***************************************************************************)
(* The allowed roots under the tools                                       *)
(***************************************************************************)
\* the registered root still exists as a directory at its registered path
RootStands(f, dir) == Stat(f, dir).err = "" /\ Stat(f, dir).kind = "dir"

\* C30: after a tool call, whether it succeeded or failed, every registered
\* allowed root still exists as a directory at its registered path.
C30_RootsStand ==
    last.op # "none" => \A i \in 1..Len(dirs) : RootStands(fs, dirs[i])

\* move_file /l/a -> /b/l with the roots /b and /b/a/a: the directory /b/a
\* is renamed and the root /b/a/a with it
C30_FailingInput ==
    /\ last.op = "move_file" /\ last.err = ""
    /\ last.source = Child(L, <<"a">>) /\ last.path = BL
    /\ dirs = <<B, BAA>>
    /\ RootStands(last.before, BAA)
    /\ ~RootStands(fs, BAA)
    /\ RootStands(fs, Child(BL, <<"a">>))

\* the roots do stand after every call other than move_file
C30_RootsStandButForMove ==
    last.op \notin {"none", "move_file"}
        => \A i \in 1..Len(dirs) : RootStands(fs, dirs[i])

(***************************************************************************)
(* The resolved roots                                                      *)
(***************************************************************************)
\* the validator of the last call, run on the filesystem of the call against
\* the roots as they resolved on the filesystem g
AgainstRootsOf(g) ==
    LET resolvedAllowed == resolveAllowedDirs(g, dirs)
    IN  CASE last.op = "ValidatePath" ->
                ValidatePathWithResolved(last.before, last.path, dirs, resolvedAllowed)
          [] last.op = "ValidatePathForCreation" ->
                ValidatePathForCreationWithResolved(last.before, last.path, dirs,
                                                    resolvedAllowed)
          [] OTHER -> Err("")

RegistryValidated == last.op \in {"ValidatePath", "ValidatePathForCreation"}

\* C24: the resolved roots the validators compare against are those of the
\* moment the registry was constructed or last replaced: a validation gives
\* what it gives against the roots as they resolved then, however a symbolic
\* link on a root's path has been re-pointed since.
C24_ResolvedRootsFixed ==
    RegistryValidated =>
        /\ last.err = AgainstRootsOf(proc.built).err
        /\ last.res = AgainstRootsOf(proc.built).path

\* the registry was built for [/l] while /l pointed to /b; /l now points to
\* /bx and Validate accepts /bx/a, which is outside /b
C24_FailingInput ==
    /\ dirs = <<L>>
    /\ proc.built[L].target = B
    /\ fs[L].target = BX
    /\ last.op = "ValidatePath" /\ last.path = BXA
    /\ last.err = "" /\ last.res = BXA
    /\ AgainstRootsOf(proc.built).err = ErrPathOutsideAllowed

\* the roots compared against are those that resolve when the call is made
C24_ResolvedAtEachCall ==
    RegistryValidated =>
        /\ last.err = AgainstRootsOf(last.before).err
        /\ last.res = AgainstRootsOf(last.before).path
        /\ (resolveAllowedDirs(last.before, dirs) = resolveAllowedDirs(proc.built, dirs)
                => last.err = AgainstRootsOf(proc.built).err)

TreeStepsAgree ==
    last.op = "directory_tree" =>
        /\ last.err = HandleDirectoryTree(fs, dirs, last.path, last.edits).err
        /\ last.stage = HandleDirectoryTree(fs, dirs, last.path, last.edits).stage
        /\ last.res = HandleDirectoryTree(fs, dirs, last.path, last.edits).res

(***************************************************************************)
(* write_file beside a concurrent actor                                    *)
(***************************************************************************)
\* the entry lies inside an allowed root
InsideRoots(e) == IsPathWithinAllowedDirectories(e, resolveAllowedDirs(BaseFs, dirs))

\* C28: whatever directory beneath an allowed root another actor replaces by
\* a symbolic link while a write_file request is served, every entry the
\* request creates or replaces, its temp file included, lies inside an
\* allowed root.
C28_CreatesOnlyInsideRoots == \A e \in proc.made : InsideRoots(e)

\* write_file /b/a/l: /b/a is replaced by a link to /bx after the last
\* validation; the temp file is created in /bx and renamed to /bx/l
C28_FailingInput ==
    /\ proc.pc = "done" /\ proc.path = BAL /\ proc.swaps = 1
    /\ last.op = "write_file" /\ last.err = ""
    /\ fs[BA] = LinkNode(BX)
    /\ Child(BX, <<"l">>) \in proc.made
    /\ Child(BX, TmpBase) \in proc.made
    /\ fs[Child(BX, <<"l">>)] = FileNode(Content, Perm0644)

\* with no replacement during the request, all it creates is inside the roots
C28_InsideWhenUndisturbed == proc.swaps = 0 => \A e \in proc.made : InsideRoots(e)
====
